---- MODULE Spec2Model ----
(***************************************************************************)
(* Memory-bank retrieval engine (tools/memory_rag): the section-aware      *)
(* chunker, the embedding cache and the incremental indexer, with the      *)
(* vector index and the embedding provider as external collaborators.      *)
(*                                                                         *)
(* Text is modelled up to whitespace: a line is the sequence of its        *)
(* whitespace-separated words (what str.split() returns), a document is    *)
(* the sequence of its lines (what content.split('\n') returns, so it has  *)
(* at least one line), and a chunk's content is a sequence of words.       *)
(* md5 digests are modelled as injective tags of what they digest.         *)
(***************************************************************************)
EXTENDS Integers, Sequences, FiniteSets, TLC

(***************************************************************************)
(* Bounds of the model.                                                    *)
(***************************************************************************)
\* longest document, in lines, that the chunker specifications draw
MaxLines == 4
\* number of filesystem operations the environment performs in a behaviour
MaxClock == 2
\* longest chunk list handed to one embed_chunks call
MaxBatchLen == 3

(***************************************************************************)
(* Configuration consumed by the components (config['chunking'],           *)
(* config['model']).                                                       *)
(***************************************************************************)
chunk_size == 3
chunk_overlap == 1
small_threshold == 2
medium_threshold == 3
executive_summary_lines == 10
section_preview_lines == 2
batch_size == 2

Range(seq) == {seq[i] : i \in 1..Len(seq)}

Min(a, b) == IF a < b THEN a ELSE b

RECURSIVE Flatten(_)
\* the words of a text given as lines: text.split()
Flatten(lines) ==
    IF lines = <<>> THEN <<>> ELSE Head(lines) \o Flatten(Tail(lines))

RECURSIVE ConcatAll(_)
ConcatAll(seqs) ==
    IF seqs = <<>> THEN <<>> ELSE Head(seqs) \o ConcatAll(Tail(seqs))

(***************************************************************************)
(* core/chunker.py                                                         *)
(***************************************************************************)
\* the lines the chunker specifications build documents from: blank, body
\* lines of one and three words, and two header lines
LineVals ==
    { <<>>, <<"a">>, <<"b">>, <<"a", "b", "c">>, <<"##", "g">>, <<"##", "h">> }

\* section_regex '^##\s+' matched at the start of a line
section_regex(line) == Len(line) >= 2 /\ line[1] = "##"

\* section labels: a header's words, "Content Part i", "Executive Summary",
\* and a header followed by " (Part i/n)"
HeaderLabel(header) == [text |-> header, part |-> 0, of |-> 0]
PartLabel(header, i, n) == [text |-> header, part |-> i, of |-> n]
ContentPartLabel(i) == [text |-> <<"Content", "Part">>, part |-> i, of |-> 0]
ExecutiveSummaryLabel == [text |-> <<"Executive", "Summary">>, part |-> 0, of |-> 0]

\* variant: a document of exactly a threshold's line count is in the upper tier
categorize_document_Exclusive(content) ==
    LET line_count == Len(content)
    IN  IF line_count >= medium_threshold THEN "red"
        ELSE IF line_count >= small_threshold THEN "yellow"
        ELSE "green"

categorize_document(content) ==
    LET line_count == Len(content)
    IN  IF line_count > medium_threshold THEN "red"
        ELSE IF line_count > small_threshold THEN "yellow"
        ELSE "green"

\* md5(f"{doc.file_path}:{section_header}:{start_line}")[:12]
ChunkId(file_path, section_header, start_line) ==
    <<file_path, section_header, start_line>>

\* variant: the chunk's content is hashed into its id as well
_create_chunk_ContentId(file_path, size_category, content, section_header, start_line, end_line) ==
    [ chunk_id       |-> <<file_path, section_header, start_line, content>>,
      document_path  |-> file_path,
      section_header |-> section_header,
      content        |-> content,
      start_line     |-> start_line,
      end_line       |-> end_line,
      size_category  |-> size_category ]

_create_chunk(file_path, size_category, content, section_header, start_line, end_line) ==
    [ chunk_id       |-> ChunkId(file_path, section_header, start_line),
      document_path  |-> file_path,
      section_header |-> section_header,
      content        |-> content,
      start_line     |-> start_line,
      end_line       |-> end_line,
      size_category  |-> size_category ]

RECURSIVE SectionsFrom(_, _)
\* the sections whose header is at line i or later (lines are 1-based here,
\* start_line and end_line 0-based as in the code)
SectionsFrom(content, i) ==
    IF i > Len(content) THEN <<>>
    ELSE IF ~section_regex(content[i]) THEN SectionsFrom(content, i + 1)
    ELSE LET later == {j \in (i + 1)..Len(content) : section_regex(content[j])}
             next  == IF later = {} THEN Len(content) + 1
                      ELSE CHOOSE j \in later : \A k \in later : j <= k
         IN  << [ header     |-> content[i],
                  content    |-> SubSeq(content, i, next - 1),
                  start_line |-> i - 1,
                  end_line   |-> next - 2 ] >>
             \o SectionsFrom(content, next)

_extract_sections(content) == SectionsFrom(content, 1)

RECURSIVE Windows(_, _, _, _)
\* the while loop of _chunk_text_by_words, from window start `start`
Windows(words, start, max_chunk_size, overlap) ==
    IF start >= Len(words) THEN <<>>
    ELSE LET end  == Min(start + max_chunk_size, Len(words))
             next == IF end < Len(words) THEN end - overlap ELSE end
         IN  <<SubSeq(words, start + 1, end)>>
             \o Windows(words, next, max_chunk_size, overlap)

_chunk_text_by_words(text, max_chunk_size, overlap) ==
    LET words == Flatten(text)
    IN  IF words = <<>> THEN <<>>
        ELSE IF Len(words) <= max_chunk_size THEN <<words>>
        ELSE Windows(words, 0, max_chunk_size, overlap)

\* use_token_based defaults to False: the word policy
_chunk_text(text, max_chunk_size, overlap) ==
    _chunk_text_by_words(text, max_chunk_size, overlap)

\* the chunks of one section of a small or medium file
SectionChunks(file_path, size_category, section) ==
    LET section_chunks == _chunk_text(section.content, chunk_size, chunk_overlap)
        n == Len(section_chunks)
    IN  [ i \in 1..n |->
            _create_chunk(file_path, size_category, section_chunks[i],
                          IF n > 1 THEN PartLabel(section.header, i, n)
                          ELSE HeaderLabel(section.header),
                          section.start_line, section.end_line) ]

_chunk_small_file(file_path, content) ==
    LET sections == _extract_sections(content)
        text_chunks == _chunk_text(content, chunk_size, chunk_overlap)
    IN  IF sections = <<>>
        THEN [ i \in 1..Len(text_chunks) |->
                 _create_chunk(file_path, "green", text_chunks[i],
                               ContentPartLabel(i), 0, Len(content)) ]
        ELSE ConcatAll([ k \in 1..Len(sections) |->
                           SectionChunks(file_path, "green", sections[k]) ])

_chunk_medium_file(file_path, content) ==
    LET sections == _extract_sections(content)
    IN  ConcatAll([ k \in 1..Len(sections) |->
                      SectionChunks(file_path, "yellow", sections[k]) ])

\* the lines of the executive summary: the first executive_summary_lines
\* lines up to the first header
ExecSummaryLines(content) ==
    LET cap == Min(Len(content), executive_summary_lines)
        hs  == {i \in 1..cap : section_regex(content[i])}
        stop == IF hs = {} THEN cap + 1
                ELSE CHOOSE i \in hs : \A k \in hs : i <= k
    IN  SubSeq(content, 1, stop - 1)

_chunk_large_file(file_path, content) ==
    LET exec_summary_lines == ExecSummaryLines(content)
        sections == _extract_sections(content)
        summary ==
            IF exec_summary_lines = <<>> THEN <<>>
            ELSE << _create_chunk(file_path, "red", Flatten(exec_summary_lines),
                                  ExecutiveSummaryLabel, 0, Len(exec_summary_lines)) >>
        Preview(section) ==
            section.header
            \o Flatten(SubSeq(section.content, 1,
                              Min(Len(section.content), section_preview_lines)))
    IN  summary
        \o [ k \in 1..Len(sections) |->
               _create_chunk(file_path, "red", Preview(sections[k]),
                             HeaderLabel(sections[k].header),
                             sections[k].start_line, sections[k].start_line + 5) ]

chunk_document(file_path, content) ==
    LET size_category == categorize_document(content)
    IN  IF size_category = "red" THEN _chunk_large_file(file_path, content)
        ELSE IF size_category = "yellow" THEN _chunk_medium_file(file_path, content)
        ELSE _chunk_small_file(file_path, content)

(***************************************************************************)
(* core/embedder.py                                                        *)
(***************************************************************************)
\* hashlib.md5(content.encode()).hexdigest()
_get_content_hash(content) == <<"md5", content>>

\* the external embedding provider, SentenceTransformer.encode, on one text:
\* deterministic (fixed seeds, eval mode)
model_encode(text) == <<"vec", text>>

RECURSIVE MissIndices(_, _, _)
\* chunk_indices: the positions, from i on, of the chunks whose content hash
\* is not in the cache as it stood when embed_chunks was called
MissIndices(chunks, cache, i) ==
    IF i > Len(chunks) THEN <<>>
    ELSE IF _get_content_hash(chunks[i].content) \in DOMAIN cache
         THEN MissIndices(chunks, cache, i + 1)
         ELSE <<i>> \o MissIndices(chunks, cache, i + 1)

\* texts = [chunk.content for chunk in chunks_to_embed]
TextsToEmbed(chunks, cache) ==
    LET chunk_indices == MissIndices(chunks, cache, 1)
    IN  [k \in 1..Len(chunk_indices) |-> chunks[chunk_indices[k]].content]

\* range(0, len(texts), batch_size): the number of provider calls
NumBatches(texts) == (Len(texts) + batch_size - 1) \div batch_size

\* the texts of batches 1..b
TextsOfBatches(texts, b) == SubSeq(texts, 1, Min(Len(texts), b * batch_size))

_batch_encode(texts) == [k \in 1..Len(texts) |-> model_encode(texts[k])]

\* the cache after the loop 'self.embedding_cache[content_hash] = embedding'
CacheAfter(chunks, cache) ==
    LET texts == TextsToEmbed(chunks, cache)
        new_embeddings == _batch_encode(texts)
        added == {_get_content_hash(texts[k]) : k \in 1..Len(texts)}
    IN  [h \in DOMAIN cache \cup added |->
           IF h \in DOMAIN cache THEN cache[h]
           ELSE LET ks == {k \in 1..Len(texts) : _get_content_hash(texts[k]) = h}
                    last == CHOOSE k \in ks : \A j \in ks : j <= k
                IN  new_embeddings[last]]

\* variant: the new vectors are handed to the misses in reverse order
embed_chunks_Reversed(chunks, cache) ==
    LET chunk_indices == MissIndices(chunks, cache, 1)
        new_embeddings == _batch_encode(TextsToEmbed(chunks, cache))
        n == Len(chunk_indices)
    IN  [i \in 1..Len(chunks) |->
           IF \E k \in 1..n : chunk_indices[k] = i
           THEN new_embeddings[n + 1 - (CHOOSE k \in 1..n : chunk_indices[k] = i)]
           ELSE cache[_get_content_hash(chunks[i].content)]]

\* the list embed_chunks returns when the provider does not raise
embed_chunks(chunks, cache) ==
    LET chunk_indices == MissIndices(chunks, cache, 1)
        new_embeddings == _batch_encode(TextsToEmbed(chunks, cache))
    IN  [i \in 1..Len(chunks) |->
           IF \E k \in 1..Len(chunk_indices) : chunk_indices[k] = i
           THEN new_embeddings[CHOOSE k \in 1..Len(chunk_indices) : chunk_indices[k] = i]
           ELSE cache[_get_content_hash(chunks[i].content)]]

\* ghost: how often the provider embedded each text, counted up to the cap
EncodeCountCap == 2

\* a direct embed_chunks call's outcome: the list returned (or that it
\* raised) and the number of 'Using cached embedding' log lines
NoEmbedding == [kind |-> "none", embeddings |-> <<>>, hits |-> 0]

RECURSIVE CountIn(_, _)
CountIn(texts, t) ==
    IF texts = <<>> THEN 0
    ELSE (IF Head(texts) = t THEN 1 ELSE 0) + CountIn(Tail(texts), t)

Counted(count, texts) ==
    LET ts == DOMAIN count \cup {texts[k] : k \in 1..Len(texts)}
    IN  [t \in ts |->
           Min(EncodeCountCap,
               (IF t \in DOMAIN count THEN count[t] ELSE 0) + CountIn(texts, t))]

(***************************************************************************)
(* core/intelligence.py: the index-time boost.  Floats are fixed-point     *)
(* thousandths: 1000 is 1.0 and a product is rounded down to a thousandth. *)
(***************************************************************************)
\* the largest number of urgency indicators a chunk is given
MaxIndicators == 4

\* intelligence_boost_cap = 3.0 of calculate_priority_multiplier
intelligence_boost_cap == 3000
\* config['intelligence']['boost_cap'], 3.0 by default
boost_cap == 3000

Mul(a, b) == (a * b) \div 1000

\* max(keyword.boost_multiplier * keyword.confidence for keyword in ...)
MaxKeywordBoost(priority_keywords) ==
    LET products == {Mul(k.boost_multiplier, k.confidence) : k \in priority_keywords}
    IN  CHOOSE m \in products : \A x \in products : x <= m

hierarchy_boosts(business_hierarchy_level) ==
    IF business_hierarchy_level = 1 THEN 1300
    ELSE IF business_hierarchy_level = 2 THEN 1100
    ELSE 1000

calculate_priority_multiplier(priority_markers) ==
    LET m1 == IF priority_markers.priority_keywords # {}
              THEN Mul(1000, MaxKeywordBoost(priority_markers.priority_keywords))
              ELSE 1000
        m2 == Mul(m1, hierarchy_boosts(priority_markers.business_hierarchy_level))
        m3 == IF priority_markers.client_relevance_score > 1000
              THEN Mul(m2, Min(1500, priority_markers.client_relevance_score))
              ELSE m2
        m4 == IF priority_markers.urgency_indicators > 0
              THEN Mul(m3, Min(1300, 1000 + priority_markers.urgency_indicators * 100))
              ELSE m3
    IN  Min(intelligence_boost_cap, m4)

\* the product of the status, temporal and priority multipliers, before the cap
StackedBoost(status_info, temporal_context, priority_markers) ==
    LET b1 == IF status_info = "in_progress" THEN 1400
              ELSE IF status_info = "pending" THEN 1200
              ELSE IF status_info = "completed" THEN 800
              ELSE 1000
        b2 == Mul(b1, 1000 + Mul(temporal_context.current_relevance, 500))
        b3 == Mul(b2, 1000 + Mul(temporal_context.urgency_score, 300))
    IN  Mul(b3, calculate_priority_multiplier(priority_markers))

\* variant: the product is returned as it is
_calculate_overall_boost_Uncapped(status_info, temporal_context, priority_markers) ==
    StackedBoost(status_info, temporal_context, priority_markers)

_calculate_overall_boost(status_info, temporal_context, priority_markers) ==
    Min(boost_cap, StackedBoost(status_info, temporal_context, priority_markers))

\* overall_boost of _create_default_metadata
DefaultOverallBoost == 1000

\* overall_boost of process_chunk_intelligence for the markers the three
\* extractors found in a chunk; disabled or on an exception, the default
process_chunk_intelligence(markers) ==
    IF ~markers.intelligence_enabled \/ markers.extractor_raises
    THEN DefaultOverallBoost
    ELSE _calculate_overall_boost(markers.status_info, markers.temporal_context,
                                  markers.priority_markers)

(***************************************************************************)
(* core/searcher.py: HybridSearcher.search                                 *)
(***************************************************************************)
\* config['search']
top_k == 2
relevance_threshold == 300
hybrid_alpha == 700

\* config['domains']: one domain of one file, one of two files
domains ==
    [ test |-> [files |-> <<"a.md">>, keywords |-> <<"biz">>, boost |-> 1200],
      wide |-> [files |-> <<"a.md", "b.md">>, keywords |-> <<>>, boost |-> 1500] ]

\* domain is not None and is configured
DomainConfigured(domain) == domain # "None" /\ domain \in DOMAIN domains

\* re.sub(r'[<>"\']', '', word)
StripMarkup(word) == IF word = "<biz>" THEN "biz" ELSE word

\* _sanitize_query: markup characters removed, white space normalised
_sanitize_query(query) == [i \in 1..Len(query) |-> StripMarkup(query[i])]

\* any(term in query_lower for term in terms)
AnyTerm(query, terms) == \E i \in 1..Len(query) : query[i] \in terms

\* the where clause of the domain: $eq for one file, $or for several
DomainWhere(domain) ==
    IF ~DomainConfigured(domain) THEN << >>
    ELSE IF Len(domains[domain].files) = 1
         THEN ("document_path" :> {domains[domain].files[1]})
         ELSE ("$or" :> Range(domains[domain].files))

\* where_clause.update(filters): the keys of filters replace those of the clause
WhereClause(domain, filters) == filters @@ DomainWhere(domain)

\* one condition of a where clause on a stored record
WhereHolds(key, allowed, r) ==
    IF key = "size_category" THEN r.size_category \in allowed
    ELSE r.document_path \in allowed

MatchesWhere(where_clause, r) ==
    \A key \in DOMAIN where_clause : WhereHolds(key, where_clause[key], r)

\* the index of the first element of seq that is least (greatest) under key
RECURSIVE FirstBest(_, _, _, _)
FirstBest(keys, i, best, greatest) ==
    IF i > Len(keys) THEN best
    ELSE IF (greatest /\ keys[i] > keys[best]) \/ (~greatest /\ keys[i] < keys[best])
         THEN FirstBest(keys, i + 1, i, greatest)
         ELSE FirstBest(keys, i + 1, best, greatest)

Remove(seq, i) == SubSeq(seq, 1, i - 1) \o SubSeq(seq, i + 1, Len(seq))

\* a stable sort of seq by keys, descending if greatest
RECURSIVE StableSort(_, _, _)
StableSort(seq, keys, greatest) ==
    IF seq = <<>> THEN <<>>
    ELSE LET i == FirstBest(keys, 2, 1, greatest)
         IN  <<seq[i]>> \o StableSort(Remove(seq, i), Remove(keys, i), greatest)

SearchResult(chunk, score, relevance_type) ==
    [chunk |-> chunk, score |-> score, relevance_type |-> relevance_type,
     enhanced_score |-> score]

\* _semantic_search on the records as stored: collection.query gives the
\* n_results nearest records that satisfy the where clause, nearest first
_semantic_search(stored, domain, filters) ==
    LET where_clause == WhereClause(domain, filters)
        matching == SelectSeq(stored, LAMBDA r : MatchesWhere(where_clause, r))
        nearest == StableSort(matching,
                              [i \in 1..Len(matching) |-> matching[i].distance], FALSE)
        found == SubSeq(nearest, 1, Min(Len(nearest), top_k * 2))
    IN  [i \in 1..Len(found) |->
           SearchResult(found[i], 1000 - found[i].distance, "semantic")]

\* sum(1 for keyword in keywords if keyword in content)
RECURSIVE MatchCount(_, _)
MatchCount(keywords, content) ==
    IF keywords = <<>> THEN 0
    ELSE (IF Head(keywords) \in content THEN 1 ELSE 0)
         + MatchCount(Tail(keywords), content)

_keyword_search(stored, query, domain) ==
    LET keywords == IF DomainConfigured(domain)
                    THEN query \o domains[domain].keywords ELSE query
        domain_files == IF DomainConfigured(domain)
                        THEN Range(domains[domain].files) ELSE {}
        hits == SelectSeq(stored, LAMBDA r :
                    /\ ~(domain_files # {} /\ r.document_path \notin domain_files)
                    /\ MatchCount(keywords, r.content) > 0)
    IN  [i \in 1..Len(hits) |->
           SearchResult(hits[i],
                        (MatchCount(keywords, hits[i].content) * 1000) \div Len(keywords),
                        "keyword")]

\* the position of chunk_id in combined_map, 0 if it is not a key
PositionOf(combined, chunk_id) ==
    IF \E i \in 1..Len(combined) : combined[i].chunk.chunk_id = chunk_id
    THEN CHOOSE i \in 1..Len(combined) : combined[i].chunk.chunk_id = chunk_id
    ELSE 0

\* the first loop of _combine_results
RECURSIVE AddSemantic(_, _, _)
AddSemantic(combined, semantic_results, alpha) ==
    IF semantic_results = <<>> THEN combined
    ELSE LET result == Head(semantic_results)
             at == PositionOf(combined, result.chunk.chunk_id)
             next == IF at = 0
                     THEN Append(combined,
                                 [result EXCEPT !.score = Mul(result.score, alpha)])
                     ELSE [combined EXCEPT ![at].score = @ + Mul(result.score, alpha)]
         IN  AddSemantic(next, Tail(semantic_results), alpha)

\* the second loop of _combine_results
RECURSIVE AddKeyword(_, _, _)
AddKeyword(combined, keyword_results, alpha) ==
    IF keyword_results = <<>> THEN combined
    ELSE LET result == Head(keyword_results)
             at == PositionOf(combined, result.chunk.chunk_id)
             next == IF at = 0
                     THEN Append(combined,
                                 [result EXCEPT !.score = Mul(result.score, 1000 - alpha),
                                                !.relevance_type = "keyword"])
                     ELSE [combined EXCEPT
                              ![at].score = @ + Mul(result.score, 1000 - alpha),
                              ![at].relevance_type = "hybrid"]
         IN  AddKeyword(next, Tail(keyword_results), alpha)

\* variant: a chunk of both legs keeps its semantic score and tag
_combine_results_NoFusion(semantic_results, keyword_results, alpha) ==
    LET combined == AddSemantic(<<>>, semantic_results, alpha)
        only == SelectSeq(keyword_results, LAMBDA r :
                    PositionOf(combined, r.chunk.chunk_id) = 0)
    IN  combined \o [i \in 1..Len(only) |->
                       [only[i] EXCEPT !.score = Mul(only[i].score, 1000 - alpha)]]

_combine_results(semantic_results, keyword_results, alpha) ==
    AddKeyword(AddSemantic(<<>>, semantic_results, alpha), keyword_results, alpha)

\* 'domain_file in result.chunk.document_path': no path of the model is a
\* proper substring of another
_apply_domain_boost(results, domain) ==
    IF domain \notin DOMAIN domains THEN results
    ELSE [i \in 1..Len(results) |->
            IF \E f \in Range(domains[domain].files) : f = results[i].chunk.document_path
            THEN [results[i] EXCEPT !.score = Mul(@, domains[domain].boost)]
            ELSE results[i]]

\* variant: urgency does not enter the boost
_apply_query_specific_boost_NoUrgency(base_score, query, status_type, current_relevance, urgency_score) ==
    LET b1 == IF AnyTerm(query, {"current", "active", "now", "today"})
              THEN Mul(IF status_type = "in_progress" THEN Mul(base_score, 1500)
                       ELSE base_score,
                       1000 + Mul(current_relevance, 500))
              ELSE base_score
        b3 == IF AnyTerm(query, {"andrew", "client", "engagement", "sprint"})
              THEN Mul(b1, 1300) ELSE b1
    IN  IF AnyTerm(query, {"completed", "done", "finished"}) /\ status_type = "completed"
        THEN Mul(b3, 1400) ELSE b3

_apply_query_specific_boost(base_score, query, status_type, current_relevance, urgency_score) ==
    LET b1 == IF AnyTerm(query, {"current", "active", "now", "today"})
              THEN Mul(IF status_type = "in_progress" THEN Mul(base_score, 1500)
                       ELSE base_score,
                       1000 + Mul(current_relevance, 500))
              ELSE base_score
        b2 == IF AnyTerm(query, {"urgent", "priority", "critical", "deadline"})
              THEN Mul(b1, 1000 + Mul(urgency_score, 700)) ELSE b1
        b3 == IF AnyTerm(query, {"andrew", "client", "engagement", "sprint"})
              THEN Mul(b2, 1300) ELSE b2
    IN  IF AnyTerm(query, {"completed", "done", "finished"}) /\ status_type = "completed"
        THEN Mul(b3, 1400) ELSE b3

_passes_intelligence_filters(chunk_metadata, intelligence_filters) ==
    /\ "status_type" \in DOMAIN intelligence_filters
          => chunk_metadata.status_type = intelligence_filters["status_type"]
    /\ "max_priority_level" \in DOMAIN intelligence_filters
          => chunk_metadata.priority_level <= intelligence_filters["max_priority_level"]
    /\ "min_urgency_score" \in DOMAIN intelligence_filters
          => chunk_metadata.urgency_score >= intelligence_filters["min_urgency_score"]
    /\ "min_current_relevance" \in DOMAIN intelligence_filters
          => chunk_metadata.current_relevance >= intelligence_filters["min_current_relevance"]

\* enhanced_score of one result
EnhancedScore(result, query) ==
    _apply_query_specific_boost(Mul(result.score, result.chunk.intelligence_boost),
                                query, result.chunk.status_type,
                                result.chunk.current_relevance,
                                result.chunk.urgency_score)

_apply_intelligence_boost(results, query, intelligence_filters) ==
    LET kept == SelectSeq(results, LAMBDA r :
                    intelligence_filters = << >>
                    \/ _passes_intelligence_filters(r.chunk, intelligence_filters))
    IN  [i \in 1..Len(kept) |->
           [kept[i] EXCEPT !.enhanced_score = EnhancedScore(kept[i], query)]]

\* variant: the results are left in the order of the fusion
SortByEnhancedScore_Unsorted(results) == results

\* combined_results.sort(key=lambda x: x.enhanced_score, reverse=True)
SortByEnhancedScore(results) ==
    StableSort(results, [i \in 1..Len(results) |-> results[i].enhanced_score], TRUE)

\* lines 198-216: fusion, domain boost, intelligence boost
Candidates(semantic_results, keyword_results, request) ==
    LET combined == _combine_results(semantic_results, keyword_results, hybrid_alpha)
        boosted == IF request.domain # "None"
                   THEN _apply_domain_boost(combined, request.domain)
                   ELSE combined
    IN  IF request.intelligence_enabled
        THEN _apply_intelligence_boost(boosted, _sanitize_query(request.query),
                                       request.intelligence_filters)
        ELSE [i \in 1..Len(boosted) |->
                [boosted[i] EXCEPT !.enhanced_score = boosted[i].score]]

\* lines 218-226: sort, threshold, top k
TopResults(candidates) ==
    LET filtered_results == SelectSeq(SortByEnhancedScore(candidates), LAMBDA r :
                                r.enhanced_score >= relevance_threshold)
    IN  SubSeq(filtered_results, 1, Min(Len(filtered_results), top_k))

NoSearch ==
    [kind |-> "none", cause |-> "none", semantic |-> <<>>, keyword |-> <<>>,
     combined |-> <<>>, candidates |-> <<>>, results |-> <<>>,
     embed_calls |-> 0, store_calls |-> 0]

\* HybridSearcher.search on the records as stored.  request.provider says
\* what the embedder and the vector index do: "embed_raises", "query_raises",
\* "get_raises", or they answer, a where clause of several top-level keys
\* being rejected by the vector index ("strict") or read as a conjunction
\* ("lenient")
search(stored, initialised, request) ==
    LET query == _sanitize_query(request.query)
        where_clause == WhereClause(request.domain, request.filters)
        semantic_results == _semantic_search(stored, request.domain, request.filters)
        keyword_results == _keyword_search(stored, query, request.domain)
        candidates == Candidates(semantic_results, keyword_results, request)
    IN  IF ~initialised
        THEN [NoSearch EXCEPT !.kind = "raised", !.cause = "ValueError"]
        ELSE IF request.provider = "embed_raises"
        THEN [NoSearch EXCEPT !.kind = "raised", !.cause = "embedder",
                              !.embed_calls = 1]
        ELSE IF \/ request.provider = "query_raises"
                \/ (request.provider = "strict" /\ Cardinality(DOMAIN where_clause) > 1)
        THEN [NoSearch EXCEPT !.kind = "raised", !.cause = "vector index",
                              !.embed_calls = 1, !.store_calls = 1]
        ELSE IF request.provider = "get_raises"
        THEN [NoSearch EXCEPT !.kind = "raised", !.cause = "vector index",
                              !.semantic = semantic_results,
                              !.embed_calls = 1, !.store_calls = 2]
        ELSE [kind |-> "returned", cause |-> "none",
              semantic |-> semantic_results, keyword |-> keyword_results,
              combined |-> _combine_results(semantic_results, keyword_results,
                                            hybrid_alpha),
              candidates |-> candidates,
              results |-> TopResults(candidates),
              embed_calls |-> 1, store_calls |-> 2]

(***************************************************************************)
(* State                                                                   *)
(***************************************************************************)
VARIABLES
    \* the memory-bank tree: per path, whether the file exists, its bytes,
    \* its modification time and whether it can be opened for reading
    fs,
    \* logical clock of the filesystem: one tick per filesystem operation
    now,
    \* index_state.json: relative path -> (hash, mtime, size)
    index_state,
    \* ghost: the clock value at which the persisted scan was taken (-1: never)
    state_clock,
    \* HybridSearcher.collection is set (create_or_load_collection was called)
    collection_init,
    \* the records of the vector index: chunk and embedding
    collection,
    \* LocalEmbedder.embedding_cache: content hash -> vector
    embedding_cache,
    \* ghost: how often the provider embedded each text for the direct
    \* embed_chunks calls since the last clear_cache, counted up to
    \* EncodeCountCap
    encode_count,
    \* the indexer's position: "idle", "delete", "rescan", "index",
    \* "persist", "done"
    pc,
    \* the pass being run: "incremental", "full" or "none"
    op,
    \* detect_changes' result
    new_files, modified_files, deleted_files,
    \* paths whose delete_document call is still to come
    del_left,
    \* the scan the pass works from and persists, and the clock when taken
    current_state, scan_clock,
    \* paths of files_to_index still to be processed
    files_to_index,
    indexed_count,
    \* ghost: per processed path of the pass, what happened to it and the
    \* text that was read
    processed,
    \* what the pass did: returned a count, raised, or nothing yet
    result,
    \* a direct embed_chunks call: its argument and what it returned
    embed_in, embed_out,
    \* the chunker on its own: the document, its chunks, and the document and
    \* chunks before the last edit
    cpc, doc, chunks, prev_doc, prev_chunks,
    \* a search call: the request and what search did with it
    search_in, search_out,
    \* a process_chunk_intelligence call: the markers the extractors found in
    \* the chunk and the overall_boost returned
    boost_in, boost_out,
    \* ghost: the number of _save_index_state calls of the pass
    state_writes,
    \* a verify_index call: the dictionary it returned
    verify_out,
    \* threads calling embed_chunks on one embedder, and embedding_cache.pkl
    workers, cache_file,
    \* the watch command: its loop, the wall clock and the notifications
    watch,
    \* a _chunk_text_by_words call: the locals of its while loop
    window

envVars   == <<fs, now>>
storeVars == <<index_state, state_clock, collection_init, collection>>
cacheVars == <<embedding_cache, encode_count>>
passVars  == <<pc, op, new_files, modified_files, deleted_files, del_left,
               current_state, scan_clock, files_to_index, indexed_count,
               processed, result, state_writes>>
embedVars == <<embed_in, embed_out>>
chunkVars == <<cpc, doc, chunks, prev_doc, prev_chunks>>
queryVars == <<search_in, search_out, boost_in, boost_out>>
auxVars   == <<verify_out, workers, cache_file, watch, window>>
vars == <<envVars, storeVars, cacheVars, passVars, embedVars, chunkVars, queryVars,
          auxVars>>

\* the relative paths of the markdown files under the memory-bank root
Paths == {"a.md", "b.md"}

\* the byte contents the environment writes: whether they decode as UTF-8,
\* and their text
\* a file of one section
SectionBody == [utf8 |-> TRUE, text |-> << <<"##", "h">>, <<"a">> >>]
\* the same section with a longer body, saved in an encoding that is not UTF-8
LongBody == [utf8 |-> FALSE, text |-> << <<"##", "h">>, <<"a", "b", "c">> >>]
\* a file of white space only
BlankBody == [utf8 |-> TRUE, text |-> << <<>> >>]
FileBodies == {SectionBody, LongBody, BlankBody}

NoFile == [exists |-> FALSE, body |-> BlankBody, mtime |-> 0, readable |-> TRUE]

\* the tree the indexer is constructed over: a.md exists, b.md does not
InitTree ==
    [p \in Paths |->
       IF p = "a.md"
       THEN [exists |-> TRUE, body |-> SectionBody, mtime |-> 0, readable |-> TRUE]
       ELSE NoFile]
EmptyMap == [x \in {} |-> 0]

\* what a pass did: nothing yet, returned indexed_count, or raised (and
\* what raised: "PermissionError" from the scan, "provider" from the vector
\* index)
NoResult == [kind |-> "none", count |-> 0, cause |-> "none"]
Raised(cause) == [kind |-> "raised", count |-> 0, cause |-> cause]
Returned(n) == [kind |-> "returned", count |-> n, cause |-> "none"]

(***************************************************************************)
(* core/indexer.py                                                         *)
(***************************************************************************)
\* hashlib.md5(f.read()).hexdigest() of the file's bytes
_get_file_hash(body) == <<"md5", body>>

\* file_path.stat().st_size: one byte per word and per line end
st_size(body) == Len(Flatten(body.text)) + Len(body.text)

\* _get_file_hash opens the file: a file that cannot be read makes the scan
\* raise PermissionError
ScanRaises(tree) == \E p \in Paths : tree[p].exists /\ ~tree[p].readable

_scan_memory_bank(tree) ==
    [p \in {q \in Paths : tree[q].exists} |->
       [ hash  |-> _get_file_hash(tree[p].body),
         mtime |-> tree[p].mtime,
         size  |-> st_size(tree[p].body) ]]

\* detect_changes: (new_files, modified_files, deleted_files)
detect_new(current, previous) == DOMAIN current \ DOMAIN previous
detect_deleted(current, previous) == DOMAIN previous \ DOMAIN current
\* variant: a file whose mtime changed counts as modified too
detect_modified_mtime(current, previous) ==
    {p \in DOMAIN current \cap DOMAIN previous :
        \/ current[p].hash # previous[p].hash
        \/ current[p].mtime # previous[p].mtime}

detect_modified(current, previous) ==
    {p \in DOMAIN current \cap DOMAIN previous :
        current[p].hash # previous[p].hash}

\* variant: delete_document removes nothing
delete_document_Nothing(records, document_path) == records

\* HybridSearcher.delete_document: collection.get(where document_path = p)
\* and collection.delete(ids)
delete_document(records, document_path) ==
    {r \in records : r.chunk.document_path # document_path}

\* HybridSearcher.add_chunks -> collection.add: a record whose id the
\* collection already holds is left as it is
add_chunks(records, chunk_list, embeddings) ==
    records \cup
    { [chunk |-> chunk_list[i], embedding |-> embeddings[i]] :
        i \in {j \in 1..Len(chunk_list) :
                 \A r \in records : r.chunk.chunk_id # chunk_list[j].chunk_id} }

\* variant: only the files whose chunks were inserted, and those the pass did
\* not touch, are persisted
StateToSave_IndexedOnly(current, done, previous) ==
    [p \in {q \in DOMAIN current :
              q \in DOMAIN done => done[q].outcome = "indexed"} |-> current[p]]

\* variant: the scan is merged into what was persisted before
StateToSave_Merged(current, done, previous) ==
    [p \in DOMAIN current \cup DOMAIN previous |->
        IF p \in DOMAIN current THEN current[p] ELSE previous[p]]

\* what _save_index_state is handed at the end of a pass: the scan, whatever
\* happened to the files (done) and whatever was persisted before (previous)
StateToSave(current, done, previous) == current

\* variant: only the chunks of the deleted files are removed
paths_to_delete_DeletedOnly(deleted, modified) == deleted

\* lines 184-192: the paths whose chunks the pass deletes before it inserts
\* anything: the deleted files and the modified ones
paths_to_delete(deleted, modified) == deleted \cup modified

\* variant: the state is saved whatever is left of the loop
LoopExhausted_Always(left) == TRUE

\* lines 200 and 250: 'for file_path in files_to_index' has run out, the
\* statement after the loop is reached
LoopExhausted(left) == left = {}

\* no search call is under way
NoRequest ==
    [query |-> <<>>, domain |-> "None", filters |-> << >>,
     intelligence_filters |-> << >>, intelligence_enabled |-> TRUE,
     provider |-> "lenient", reversed |-> FALSE]

\* a chunk in which the extractors find nothing
NoMarkers ==
    [status_info |-> "unknown",
     temporal_context |-> [current_relevance |-> 500, urgency_score |-> 0],
     priority_markers |-> [priority_keywords |-> {}, business_hierarchy_level |-> 3,
                           client_relevance_score |-> 0, urgency_indicators |-> 0],
     intelligence_enabled |-> TRUE, extractor_raises |-> FALSE]

NoBoost == [kind |-> "none", overall_boost |-> 0]

\* no verify_index call has returned
NoVerify == [kind |-> "none", valid |-> TRUE, issues |-> {}]

\* no thread is calling embed_chunks; embedding_cache.pkl does not exist
NoWorkers == <<>>
NoCacheFile == [state |-> "absent", cache |-> EmptyMap]

\* embedding_cache.pkl after _save_cache has written and closed it: what
\* pickle.load returns from it
_save_cache(cache) == [state |-> "written", cache |-> cache]

\* the threads of a concurrent run
NumThreads == 2

\* --debounce, 3 by default
debounce == 3

\* time.time() when the watch command starts
Epoch == 10

\* the seconds the model lets pass while the command runs
MaxWall == 7

\* the watch command is not running.  once: --once; time: time.time();
\* last_run_ts = 0.0; pending: the watcher has a notification for the loop.
\* Ghosts: starts, the times at which the loop started a pass; unserved, a
\* notification was dropped and no pass has started since; coalesced, a
\* notification was dropped between the last two passes
NoWatch ==
    [pc |-> "off", once |-> FALSE, time |-> Epoch, last_run_ts |-> 0,
     pending |-> FALSE, starts |-> <<>>, unserved |-> FALSE,
     coalesced |-> FALSE]

\* the longest text of the window calls, in words; the largest chunk_size
MaxWords == 4
MaxSize == 2

\* the iterations for which the loop of a window call is followed: more
\* than the windows of any text of the model when the start advances
MaxWindows == MaxWords + 2

\* no _chunk_text_by_words call is under way.  words: text.split();
\* start: the loop's window start; chunks: the list built so far
NoWindow ==
    [pc |-> "off", words |-> <<>>, max_chunk_size |-> 1, overlap |-> 0,
     start |-> 0, chunks |-> <<>>]

PassReset ==
    /\ new_files' = {} /\ modified_files' = {} /\ deleted_files' = {}
    /\ del_left' = {} /\ current_state' = EmptyMap /\ scan_clock' = -1
    /\ files_to_index' = {} /\ indexed_count' = 0 /\ processed' = EmptyMap
    /\ state_writes' = 0

\* nothing but the indexer, the embedder, the chunker and the searcher is
\* in use
AuxInit ==
    /\ verify_out = NoVerify
    /\ workers = NoWorkers /\ cache_file = NoCacheFile
    /\ watch = NoWatch
    /\ window = NoWindow

Init ==
    /\ fs = InitTree
    /\ now = 0
    /\ index_state = EmptyMap
    /\ state_clock = -1
    /\ collection_init = FALSE
    /\ collection = {}
    /\ embedding_cache = EmptyMap
    /\ encode_count = EmptyMap
    /\ pc = "idle" /\ op = "none" /\ result = NoResult
    /\ state_writes = 0
    /\ new_files = {} /\ modified_files = {} /\ deleted_files = {}
    /\ del_left = {} /\ current_state = EmptyMap /\ scan_clock = -1
    /\ files_to_index = {} /\ indexed_count = 0 /\ processed = EmptyMap
    /\ embed_in = <<>> /\ embed_out = NoEmbedding
    /\ cpc = "off" /\ doc = << <<>> >> /\ chunks = <<>>
    /\ prev_doc = << <<>> >> /\ prev_chunks = <<>>
    /\ search_in = NoRequest /\ search_out = NoSearch
    /\ boost_in = NoMarkers /\ boost_out = NoBoost
    /\ AuxInit

(***************************************************************************)
(* The environment: files are written, touched, removed and chmod-ed at    *)
(* any time, also while a pass runs.                                       *)
(***************************************************************************)
WriteFile(p, body) ==
    /\ now < MaxClock
    /\ ~(fs[p].exists /\ fs[p].body = body)
    /\ now' = now + 1
    /\ fs' = [fs EXCEPT ![p] = [exists |-> TRUE, body |-> body,
                                mtime |-> now + 1,
                                readable |-> IF fs[p].exists THEN fs[p].readable ELSE TRUE]]
    /\ UNCHANGED <<storeVars, cacheVars, passVars, embedVars, chunkVars>>
    /\ UNCHANGED <<queryVars, auxVars>>

TouchFile(p) ==
    /\ now < MaxClock
    /\ fs[p].exists
    /\ now' = now + 1
    /\ fs' = [fs EXCEPT ![p].mtime = now + 1]
    /\ UNCHANGED <<storeVars, cacheVars, passVars, embedVars, chunkVars>>
    /\ UNCHANGED <<queryVars, auxVars>>

RemoveFile(p) ==
    /\ now < MaxClock
    /\ fs[p].exists
    /\ now' = now + 1
    /\ fs' = [fs EXCEPT ![p] = NoFile]
    /\ UNCHANGED <<storeVars, cacheVars, passVars, embedVars, chunkVars>>
    /\ UNCHANGED <<queryVars, auxVars>>

ChmodFile(p) ==
    /\ now < MaxClock
    /\ fs[p].exists
    /\ now' = now + 1
    /\ fs' = [fs EXCEPT ![p].readable = ~fs[p].readable]
    /\ UNCHANGED <<storeVars, cacheVars, passVars, embedVars, chunkVars>>
    /\ UNCHANGED <<queryVars, auxVars>>

(***************************************************************************)
(* HybridSearcher.create_or_load_collection                                *)
(***************************************************************************)
create_or_load_collection ==
    /\ pc = "idle"
    /\ ~collection_init
    /\ collection_init' = TRUE
    /\ UNCHANGED <<envVars, index_state, state_clock, collection, cacheVars,
                   passVars, embedVars, chunkVars>>
    /\ UNCHANGED <<queryVars, auxVars>>

(***************************************************************************)
(* IncrementalIndexer.incremental_index                                    *)
(***************************************************************************)
\* lines 173-182: detect_changes (scan, load state, diff) and the early return
IncrementalDetect ==
    /\ pc = "idle"
    /\ op' = "incremental"
    /\ IF ScanRaises(fs)
       THEN /\ pc' = "done" /\ result' = Raised("PermissionError")
            /\ PassReset
       ELSE LET current == _scan_memory_bank(fs)
                n == detect_new(current, index_state)
                m == detect_modified(current, index_state)
                d == detect_deleted(current, index_state)
            IN  /\ new_files' = n /\ modified_files' = m /\ deleted_files' = d
                /\ current_state' = EmptyMap /\ scan_clock' = -1
                /\ files_to_index' = {} /\ indexed_count' = 0
                /\ processed' = EmptyMap
                /\ state_writes' = 0
                /\ IF Cardinality(n) + Cardinality(m) + Cardinality(d) = 0
                   THEN /\ pc' = "done" /\ result' = Returned(0) /\ del_left' = {}
                   ELSE /\ pc' = "delete" /\ result' = NoResult
                        /\ del_left' = paths_to_delete(d, m)
    /\ UNCHANGED <<envVars, storeVars, cacheVars, embedVars, chunkVars>>
    /\ UNCHANGED <<queryVars, auxVars>>

\* variant: a failure of delete_document is logged and the pass goes on
DeleteStepSwallow(p, raises) ==
    /\ pc = "delete"
    /\ p \in del_left
    /\ (p \in modified_files => del_left \cap deleted_files = {})
    /\ collection' = IF collection_init /\ ~raises
                     THEN delete_document(collection, p)
                     ELSE collection
    /\ del_left' = del_left \ {p}
    /\ UNCHANGED <<pc, result>>
    /\ UNCHANGED <<envVars, index_state, state_clock, collection_init, cacheVars,
                   op, new_files, modified_files, deleted_files, current_state,
                   scan_clock, files_to_index, indexed_count, processed,
                   state_writes, embedVars, chunkVars>>
    /\ UNCHANGED <<queryVars, auxVars>>

\* lines 184-192: one delete_document call, deleted files before modified
\* ones; the vector index may raise, which nothing catches
DeleteStep(p, raises) ==
    /\ pc = "delete"
    /\ p \in del_left
    /\ (p \in modified_files => del_left \cap deleted_files = {})
    /\ IF collection_init /\ raises
       THEN /\ pc' = "done" /\ result' = Raised("provider")
            /\ UNCHANGED <<collection, del_left>>
       ELSE /\ collection' = IF collection_init
                             THEN delete_document(collection, p)
                             ELSE collection
            /\ del_left' = del_left \ {p}
            /\ UNCHANGED <<pc, result>>
    /\ UNCHANGED <<envVars, index_state, state_clock, collection_init, cacheVars,
                   op, new_files, modified_files, deleted_files, current_state,
                   scan_clock, files_to_index, indexed_count, processed,
                   state_writes, embedVars, chunkVars>>
    /\ UNCHANGED <<queryVars, auxVars>>

\* lines 195-198: files_to_index and the second scan
Rescan ==
    /\ pc = "delete"
    /\ del_left = {}
    /\ IF ScanRaises(fs)
       THEN /\ pc' = "done" /\ result' = Raised("PermissionError")
            /\ UNCHANGED <<current_state, scan_clock, files_to_index>>
       ELSE /\ current_state' = _scan_memory_bank(fs)
            /\ scan_clock' = now
            /\ files_to_index' = new_files \cup modified_files
            /\ pc' = "index"
            /\ UNCHANGED result
    /\ UNCHANGED <<envVars, storeVars, cacheVars, op, new_files, modified_files,
                   deleted_files, del_left, indexed_count, processed,
                   state_writes, embedVars, chunkVars>>
    /\ UNCHANGED <<queryVars, auxVars>>

(***************************************************************************)
(* IncrementalIndexer.full_index                                           *)
(***************************************************************************)
\* line 269: the scan; every scanned file is to be indexed
FullScan ==
    /\ pc = "idle"
    /\ op' = "full"
    /\ IF ScanRaises(fs)
       THEN /\ pc' = "done" /\ result' = Raised("PermissionError")
            /\ PassReset
       ELSE /\ current_state' = _scan_memory_bank(fs)
            /\ scan_clock' = now
            /\ files_to_index' = DOMAIN _scan_memory_bank(fs)
            /\ new_files' = {} /\ modified_files' = {} /\ deleted_files' = {}
            /\ del_left' = {} /\ indexed_count' = 0 /\ processed' = EmptyMap
            /\ pc' = "index" /\ result' = NoResult
            /\ state_writes' = 0
    /\ UNCHANGED <<envVars, storeVars, cacheVars, embedVars, chunkVars>>
    /\ UNCHANGED <<queryVars, auxVars>>

(***************************************************************************)
(* The per-file loop shared by incremental_index (lines 200-247) and       *)
(* full_index (lines 273-320)                                              *)
(***************************************************************************)
\* what the loop body does with path p before it reaches the embedder
ReadOutcome(p) ==
    IF p \notin DOMAIN current_state THEN "keyerror"
    ELSE IF ~fs[p].exists THEN "notfound"
    ELSE IF ~fs[p].readable THEN "denied"
    ELSE IF Flatten(fs[p].body.text) = <<>> THEN "blank"
    ELSE IF chunk_document(p, fs[p].body.text) = <<>> THEN "nochunks"
    ELSE "chunked"

\* a file that is not UTF-8 is read again as Latin-1, which decodes any bytes
Skip(p, why) ==
    /\ processed' = [q \in DOMAIN processed \cup {p} |->
                       IF q = p THEN [outcome |-> why, text |-> << <<>> >>]
                       ELSE processed[q]]
    /\ files_to_index' = files_to_index \ {p}

\* one iteration: read, validate, chunk, embed, insert. embed_raises: the
\* embedding provider raises at one of the batches; add_raises:
\* collection.add raises; both, and the ValueError of add_chunks on a
\* collection that is not initialised, are caught by 'except Exception'
IndexFile(p, embed_raises, add_raises) ==
    /\ pc = "index"
    /\ p \in files_to_index
    /\ (op = "incremental" /\ p \in modified_files
            => files_to_index \cap new_files = {})
    /\ IF ReadOutcome(p) # "chunked"
       THEN /\ ~embed_raises /\ ~add_raises
            /\ Skip(p, ReadOutcome(p))
            /\ UNCHANGED <<collection, embedding_cache, indexed_count>>
       ELSE LET text == fs[p].body.text
                chunk_list == chunk_document(p, text)
                texts == TextsToEmbed(chunk_list, embedding_cache)
            IN  /\ files_to_index' = files_to_index \ {p}
                /\ IF embed_raises
                   THEN /\ ~add_raises
                        /\ processed' = [q \in DOMAIN processed \cup {p} |->
                              IF q = p THEN [outcome |-> "embed_failed", text |-> text]
                              ELSE processed[q]]
                        /\ UNCHANGED <<embedding_cache, collection, indexed_count>>
                   ELSE /\ embedding_cache' = CacheAfter(chunk_list, embedding_cache)
                        /\ IF ~collection_init \/ add_raises
                           THEN /\ processed' = [q \in DOMAIN processed \cup {p} |->
                                      IF q = p
                                      THEN [outcome |-> IF ~collection_init
                                                        THEN "not_initialised"
                                                        ELSE "add_failed",
                                            text |-> text]
                                      ELSE processed[q]]
                                /\ UNCHANGED <<collection, indexed_count>>
                           ELSE /\ collection' =
                                      add_chunks(collection, chunk_list,
                                                 embed_chunks(chunk_list, embedding_cache))
                                /\ indexed_count' = indexed_count + 1
                                /\ processed' = [q \in DOMAIN processed \cup {p} |->
                                      IF q = p THEN [outcome |-> "indexed", text |-> text]
                                      ELSE processed[q]]
    /\ cache_file' =
         IF /\ ReadOutcome(p) = "chunked" /\ ~embed_raises
            /\ TextsToEmbed(chunk_document(p, fs[p].body.text), embedding_cache) # <<>>
         THEN _save_cache(CacheAfter(chunk_document(p, fs[p].body.text),
                                     embedding_cache))
         ELSE cache_file
    /\ UNCHANGED <<envVars, index_state, state_clock, collection_init, pc, op,
                   new_files, modified_files, deleted_files, del_left,
                   current_state, scan_clock, result, state_writes, encode_count,
                   embedVars, chunkVars>>
    /\ UNCHANGED <<queryVars, verify_out, workers, watch, window>>

\* lines 250-253 and 323-326: _save_index_state(current_state), return
Persist ==
    /\ pc = "index"
    /\ LoopExhausted(files_to_index)
    /\ index_state' = StateToSave(current_state, processed, index_state)
    /\ state_clock' = scan_clock
    /\ result' = Returned(indexed_count)
    /\ pc' = "done"
    /\ state_writes' = state_writes + 1
    /\ UNCHANGED <<envVars, collection_init, collection, cacheVars, op, new_files,
                   modified_files, deleted_files, del_left, current_state,
                   scan_clock, files_to_index, indexed_count, processed,
                   embedVars, chunkVars>>
    /\ UNCHANGED <<queryVars, auxVars>>

\* the caller has the result; the indexer is idle again
Return ==
    /\ pc = "done"
    /\ pc' = "idle" /\ op' = "none" /\ result' = NoResult
    /\ PassReset
    /\ UNCHANGED <<envVars, storeVars, cacheVars, embedVars, chunkVars>>
    /\ UNCHANGED <<queryVars, auxVars>>

Environment ==
    \E p \in Paths :
        \/ \E body \in FileBodies : WriteFile(p, body)
        \/ TouchFile(p)
        \/ RemoveFile(p)
        \/ ChmodFile(p)

Next ==
    \/ Environment
    \/ create_or_load_collection
    \/ IncrementalDetect
    \/ \E p \in Paths, raises \in BOOLEAN : DeleteStep(p, raises)
    \/ Rescan
    \/ FullScan
    \/ \E p \in Paths, embed_raises \in BOOLEAN, add_raises \in BOOLEAN :
          IndexFile(p, embed_raises, add_raises)
    \/ Persist
    \/ Return

Spec == Init /\ [][Next]_vars

(***************************************************************************)
(* LocalEmbedder called directly                                           *)
(***************************************************************************)
\* the chunks the calls draw from: three contents, each under two chunk ids
EmbedPool ==
    { _create_chunk("a.md", "green", c, ContentPartLabel(i), 0, 1) :
        c \in { <<"a">>, <<"b">>, <<"a", "b", "c">> }, i \in 1..2 }

ChunkLists == UNION { [1..n -> EmbedPool] : n \in 0..MaxBatchLen }

\* embed_chunks(chunk_list); embed_fail is the batch at which the provider
\* raises (0: it does not), after it has embedded the batches before it
EmbedChunks(chunk_list, embed_fail) ==
    LET texts == TextsToEmbed(chunk_list, embedding_cache)
    IN  /\ embed_out.kind = "none"
        /\ embed_fail <= NumBatches(texts)
        /\ embed_in' = chunk_list
        /\ IF embed_fail > 0
           THEN /\ encode_count' =
                     Counted(encode_count, TextsOfBatches(texts, embed_fail - 1))
                /\ embed_out' = [kind |-> "raised", embeddings |-> <<>>,
                                 hits |-> Len(chunk_list) - Len(texts)]
                /\ UNCHANGED embedding_cache
           ELSE /\ encode_count' = Counted(encode_count, texts)
                /\ embedding_cache' = CacheAfter(chunk_list, embedding_cache)
                /\ embed_out' = [kind |-> "returned",
                                 embeddings |-> embed_chunks(chunk_list, embedding_cache),
                                 hits |-> Len(chunk_list) - Len(texts)]
        /\ cache_file' = IF embed_fail = 0 /\ texts # <<>>
                         THEN _save_cache(CacheAfter(chunk_list, embedding_cache))
                         ELSE cache_file
        /\ UNCHANGED <<envVars, storeVars, passVars, chunkVars>>
        /\ UNCHANGED <<queryVars, verify_out, workers, watch, window>>

\* the caller has the vectors (or the exception)
EmbedReturn ==
    /\ embed_out.kind # "none"
    /\ embed_in' = <<>>
    /\ embed_out' = NoEmbedding
    /\ UNCHANGED <<envVars, storeVars, cacheVars, passVars, chunkVars>>
    /\ UNCHANGED <<queryVars, auxVars>>

clear_cache ==
    /\ embed_out.kind = "none"
    /\ embedding_cache # EmptyMap
    /\ embedding_cache' = EmptyMap
    /\ encode_count' = EmptyMap
    /\ cache_file' = _save_cache(EmptyMap)
    /\ UNCHANGED <<envVars, storeVars, passVars, embedVars, chunkVars>>
    /\ UNCHANGED <<queryVars, verify_out, workers, watch, window>>

NextEmbed ==
    \/ \E chunk_list \in ChunkLists, embed_fail \in 0..MaxBatchLen :
          EmbedChunks(chunk_list, embed_fail)
    \/ EmbedReturn
    \/ clear_cache

SpecEmbed == Init /\ [][NextEmbed]_vars

(***************************************************************************)
(* MemoryBankChunker called directly                                       *)
(***************************************************************************)
Docs == UNION { [1..n -> LineVals] : n \in 1..MaxLines }

InitChunk ==
    /\ fs = InitTree
    /\ now = 0
    /\ index_state = EmptyMap
    /\ state_clock = -1
    /\ collection_init = FALSE
    /\ collection = {}
    /\ embedding_cache = EmptyMap
    /\ encode_count = EmptyMap
    /\ pc = "idle" /\ op = "none" /\ result = NoResult
    /\ state_writes = 0
    /\ new_files = {} /\ modified_files = {} /\ deleted_files = {}
    /\ del_left = {} /\ current_state = EmptyMap /\ scan_clock = -1
    /\ files_to_index = {} /\ indexed_count = 0 /\ processed = EmptyMap
    /\ embed_in = <<>> /\ embed_out = NoEmbedding
    /\ cpc = "ready" /\ doc \in Docs /\ chunks = <<>>
    /\ prev_doc = << <<>> >> /\ prev_chunks = <<>>
    /\ search_in = NoRequest /\ search_out = NoSearch
    /\ boost_in = NoMarkers /\ boost_out = NoBoost
    /\ AuxInit

\* chunk_document("a.md", doc), the first time and after an edit
ChunkDocument ==
    /\ cpc \in {"ready", "edited"}
    /\ chunks' = chunk_document("a.md", doc)
    /\ cpc' = IF cpc = "ready" THEN "chunked" ELSE "rechunked"
    /\ UNCHANGED <<envVars, storeVars, cacheVars, passVars, embedVars,
                   doc, prev_doc, prev_chunks>>
    /\ UNCHANGED <<queryVars, auxVars>>

\* an edit of body text: line i, not a header, becomes another line that is
\* not a header
EditBody(i, line) ==
    /\ cpc = "chunked"
    /\ i \in 1..Len(doc)
    /\ ~section_regex(doc[i]) /\ ~section_regex(line) /\ line # doc[i]
    /\ prev_doc' = doc /\ prev_chunks' = chunks
    /\ doc' = [doc EXCEPT ![i] = line]
    /\ cpc' = "edited"
    /\ UNCHANGED <<envVars, storeVars, cacheVars, passVars, embedVars, chunks>>
    /\ UNCHANGED <<queryVars, auxVars>>

\* an edit of body text: a line that is not a header is appended
AppendBody(line) ==
    /\ cpc = "chunked"
    /\ Len(doc) < MaxLines
    /\ ~section_regex(line)
    /\ prev_doc' = doc /\ prev_chunks' = chunks
    /\ doc' = Append(doc, line)
    /\ cpc' = "edited"
    /\ UNCHANGED <<envVars, storeVars, cacheVars, passVars, embedVars, chunks>>
    /\ UNCHANGED <<queryVars, auxVars>>

NextChunk ==
    \/ ChunkDocument
    \/ \E i \in 1..MaxLines, line \in LineVals : EditBody(i, line)
    \/ \E line \in LineVals : AppendBody(line)

SpecChunk == InitChunk /\ [][NextChunk]_vars
(***************************************************************************)
(* HybridSearcher.search called directly.  A stored record is the chunk    *)
(* with the metadata add_chunks stored for it; distance is the distance    *)
(* collection.query reports between its embedding and the query's.         *)
(***************************************************************************)
StoredChunk(chunk_id, document_path, content, size_category, distance, intelligence_boost, status_type, current_relevance, urgency_score, priority_level) ==
    [ chunk_id |-> chunk_id, document_path |-> document_path,
      content |-> content, size_category |-> size_category,
      distance |-> distance, intelligence_boost |-> intelligence_boost,
      status_type |-> status_type, current_relevance |-> current_relevance,
      urgency_score |-> urgency_score, priority_level |-> priority_level ]

\* the records a collection may hold for each chunk id.  A content is the
\* set of its words that a query or a domain keyword can match; an urgency
\* score above zero comes from the dates of the chunk, and every
\* intelligence_boost is one that _calculate_overall_boost gives for the
\* record's status, relevance and urgency (the cap, reached with a priority
\* multiplier of 2.5 or more)
StoredPool ==
    [ c1 |-> { StoredChunk("c1", "a.md", {"biz", "priority"}, "green", 200,
                           boost_cap, "unknown", 500, 700, 1) },
      c2 |-> { StoredChunk("c2", "a.md", {"biz", "priority"}, "green", 200,
                           boost_cap, "unknown", 500, 0, 3),
               StoredChunk("c2", "a.md", {"biz", "priority"}, "green", 200,
                           boost_cap, "in_progress", 1000, 0, 3) },
      c3 |-> { StoredChunk("c3", "b.md", {"biz"}, "yellow", 1500,
                           boost_cap, "completed", 500, 700, 2) },
      c4 |-> { StoredChunk("c4", "b.md", {"biz"}, "yellow", 1500,
                           boost_cap, "completed", 500, 0, 2),
               StoredChunk("c4", "b.md", {"biz", "priority"}, "red", 500,
                           boost_cap, "unknown", 500, 0, 2) } ]

ChunkIds == <<"c1", "c2", "c3", "c4">>

\* the collections: at most one record per chunk id
Collections ==
    { records \in SUBSET UNION {StoredPool[id] : id \in DOMAIN StoredPool} :
        \A r1 \in records, r2 \in records : r1.chunk_id = r2.chunk_id => r1 = r2 }

\* the records in the order the vector index holds them
Stored(records, reversed) ==
    LET ids == IF reversed
               THEN [i \in 1..Len(ChunkIds) |-> ChunkIds[Len(ChunkIds) + 1 - i]]
               ELSE ChunkIds
        present == SelectSeq(ids, LAMBDA id : \E r \in records : r.chunk_id = id)
    IN  [i \in 1..Len(present) |-> CHOOSE r \in records : r.chunk_id = present[i]]

Queries ==
    { <<>>, <<"biz">>, <<"<biz>">>, <<"priority">>, <<"priority", "current">>,
      <<"done", "client">> }

\* the calls: query, domain, filters, intelligence_filters, the searcher's
\* intelligence_enabled, what the embedder and the vector index do, and the
\* order in which the vector index holds the records; where the embedder or
\* the vector index raises, the arguments that are not reached are left out
Requests ==
    { request \in
        [ query : Queries,
          domain : {"None", "test", "wide", "other"},
          filters : { << >>, ("size_category" :> {"green"}),
                      ("document_path" :> {"b.md"}) },
          intelligence_filters : { << >>, ("min_urgency_score" :> 500) },
          intelligence_enabled : BOOLEAN,
          provider : {"lenient", "strict", "embed_raises", "query_raises",
                      "get_raises"},
          reversed : BOOLEAN ] :
        request.provider \in {"embed_raises", "query_raises", "get_raises"}
          => /\ request.filters = << >>
             /\ request.intelligence_filters = << >>
             /\ request.intelligence_enabled
             /\ ~request.reversed }

InitSearch ==
    /\ fs = InitTree
    /\ now = 0
    /\ index_state = EmptyMap
    /\ state_clock = -1
    /\ collection_init \in BOOLEAN
    /\ collection \in (IF collection_init THEN Collections ELSE {{}})
    /\ embedding_cache = EmptyMap
    /\ encode_count = EmptyMap
    /\ pc = "idle" /\ op = "none" /\ result = NoResult
    /\ state_writes = 0
    /\ new_files = {} /\ modified_files = {} /\ deleted_files = {}
    /\ del_left = {} /\ current_state = EmptyMap /\ scan_clock = -1
    /\ files_to_index = {} /\ indexed_count = 0 /\ processed = EmptyMap
    /\ embed_in = <<>> /\ embed_out = NoEmbedding
    /\ cpc = "off" /\ doc = << <<>> >> /\ chunks = <<>>
    /\ prev_doc = << <<>> >> /\ prev_chunks = <<>>
    /\ search_in = NoRequest /\ search_out = NoSearch
    /\ boost_in = NoMarkers /\ boost_out = NoBoost
    /\ AuxInit

\* searcher.search(query, domain, filters, intelligence_filters)
Search(request) ==
    /\ search_out.kind = "none"
    /\ search_in' = request
    /\ search_out' = search(Stored(collection, request.reversed), collection_init,
                            request)
    /\ UNCHANGED <<envVars, storeVars, cacheVars, passVars, embedVars, chunkVars,
                   boost_in, boost_out, auxVars>>

\* the caller has the results (or the exception)
SearchReturn ==
    /\ search_out.kind # "none"
    /\ search_in' = NoRequest
    /\ search_out' = NoSearch
    /\ UNCHANGED <<envVars, storeVars, cacheVars, passVars, embedVars, chunkVars,
                   boost_in, boost_out, auxVars>>

NextSearch ==
    \/ \E request \in Requests : Search(request)
    \/ SearchReturn
    \/ (search_out.kind = "none" /\ create_or_load_collection)

SpecSearch == InitSearch /\ [][NextSearch]_vars

(***************************************************************************)
(* IntelligenceProcessor.process_chunk_intelligence called directly        *)
(***************************************************************************)
\* PriorityKeyword: boost_multiplier and confidence
PriorityKeywords ==
    { [boost_multiplier |-> 2000, confidence |-> 1000],
      [boost_multiplier |-> 1300, confidence |-> 700] }

\* what the extractors can find in a chunk
Markers ==
    [ status_info : {"in_progress", "pending", "completed", "unknown"},
      temporal_context : [current_relevance : {500, 800, 1000},
                          urgency_score : {0, 300, 1000}],
      priority_markers : [priority_keywords : SUBSET PriorityKeywords,
                          business_hierarchy_level : {1, 2, 3},
                          client_relevance_score : {0, 1200, 2000},
                          urgency_indicators : 0..MaxIndicators],
      intelligence_enabled : BOOLEAN,
      extractor_raises : BOOLEAN ]

InitBoost ==
    /\ fs = InitTree
    /\ now = 0
    /\ index_state = EmptyMap
    /\ state_clock = -1
    /\ collection_init = FALSE
    /\ collection = {}
    /\ embedding_cache = EmptyMap
    /\ encode_count = EmptyMap
    /\ pc = "idle" /\ op = "none" /\ result = NoResult
    /\ state_writes = 0
    /\ new_files = {} /\ modified_files = {} /\ deleted_files = {}
    /\ del_left = {} /\ current_state = EmptyMap /\ scan_clock = -1
    /\ files_to_index = {} /\ indexed_count = 0 /\ processed = EmptyMap
    /\ embed_in = <<>> /\ embed_out = NoEmbedding
    /\ cpc = "off" /\ doc = << <<>> >> /\ chunks = <<>>
    /\ prev_doc = << <<>> >> /\ prev_chunks = <<>>
    /\ search_in = NoRequest /\ search_out = NoSearch
    /\ boost_in \in Markers /\ boost_out = NoBoost
    /\ AuxInit

\* process_chunk_intelligence(content, document_path).overall_boost
ProcessChunkIntelligence ==
    /\ boost_out.kind = "none"
    /\ boost_out' = [kind |-> "returned",
                     overall_boost |-> process_chunk_intelligence(boost_in)]
    /\ UNCHANGED <<envVars, storeVars, cacheVars, passVars, embedVars, chunkVars,
                   search_in, search_out, boost_in, auxVars>>

NextBoost == ProcessChunkIntelligence

SpecBoost == InitBoost /\ [][NextBoost]_vars

(***************************************************************************)
(* IncrementalIndexer.verify_index                                         *)
(***************************************************************************)
\* index_state_file.exists(): the file is there once a pass has saved it
IndexStateFileExists == state_clock >= 0

Issue(issue, file_path) == [issue |-> issue, file_path |-> file_path]

\* variant: paths of IndexState that the scan does not find are not reported
verify_index_NoOrphans(state_file_exists, state, tree) ==
    LET current_files == _scan_memory_bank(tree)
    IN  [ kind |-> "returned",
          valid |-> state_file_exists,
          issues |->
              (IF state_file_exists THEN {}
               ELSE {Issue("Index state file missing", "index_state.json")})
              \cup {Issue("File not indexed", p) :
                      p \in DOMAIN current_files \ DOMAIN state} ]

\* the dictionary verify_index returns: 'valid' and 'issues'
verify_index(state_file_exists, state, tree) ==
    LET current_files == _scan_memory_bank(tree)
        orphaned == DOMAIN state \ DOMAIN current_files
    IN  [ kind |-> "returned",
          valid |-> state_file_exists /\ orphaned = {},
          issues |->
              (IF state_file_exists THEN {}
               ELSE {Issue("Index state file missing", "index_state.json")})
              \cup {Issue("Indexed file no longer exists", p) : p \in orphaned}
              \cup {Issue("File not indexed", p) :
                      p \in DOMAIN current_files \ DOMAIN state} ]

\* verify_index(): get_statistics asks the vector index, which may raise
\* (stats_raises), and the scan raises on a file that cannot be read
VerifyIndex(stats_raises) ==
    /\ pc = "idle"
    /\ verify_out.kind = "none"
    /\ verify_out' = IF (collection_init /\ stats_raises) \/ ScanRaises(fs)
                     THEN [NoVerify EXCEPT !.kind = "raised"]
                     ELSE verify_index(IndexStateFileExists, index_state, fs)
    /\ UNCHANGED <<envVars, storeVars, cacheVars, passVars, embedVars, chunkVars,
                   queryVars, workers, cache_file, watch, window>>

\* the caller has the dictionary (or the exception)
VerifyReturn ==
    /\ verify_out.kind # "none"
    /\ verify_out' = NoVerify
    /\ UNCHANGED <<envVars, storeVars, cacheVars, passVars, embedVars, chunkVars,
                   queryVars, workers, cache_file, watch, window>>

NextVerify ==
    \/ (verify_out.kind = "none" /\ Next)
    \/ \E stats_raises \in BOOLEAN : VerifyIndex(stats_raises)
    \/ VerifyReturn

SpecVerify == Init /\ [][NextVerify]_vars

(***************************************************************************)
(* cli.py: the watch command.  Time is time.time() in seconds; the watcher *)
(* collects the changes it sees and yields them to the loop as one         *)
(* notification when the loop asks for the next one.                       *)
(***************************************************************************)
\* variant: every notification starts a pass
Debounced_Never(time, last_run_ts) == FALSE

\* now - last_run_ts < debounce
Debounced(time, last_run_ts) == time - last_run_ts < debounce

WatchFrame ==
    UNCHANGED <<envVars, storeVars, cacheVars, passVars, embedVars, chunkVars,
                queryVars, verify_out, workers, cache_file, window>>

\* the command is started and begins its initial pass
WatchStart(once) ==
    /\ watch.pc = "off"
    /\ watch' = [NoWatch EXCEPT !.pc = "initial", !.once = once]
    /\ WatchFrame

\* run_incremental() returns; raises: incremental_index raised, which nothing
\* in the command catches
PassDone(raises) ==
    /\ watch.pc \in {"initial", "pass"}
    /\ watch' = [watch EXCEPT !.pc = IF raises THEN "crashed"
                                    ELSE IF watch.pc = "initial" /\ watch.once
                                    THEN "exited"
                                    ELSE "waiting"]
    /\ WatchFrame

\* a second passes
Tick ==
    /\ watch.pc \in {"initial", "waiting", "pass"}
    /\ watch.time < Epoch + MaxWall
    /\ watch' = [watch EXCEPT !.time = @ + 1]
    /\ WatchFrame

\* a file under the memory bank changes while the watcher is set up (within
\* the seconds of the model): the watcher has a notification for the loop
Change ==
    /\ watch.pc \in {"pass", "waiting"}
    /\ watch.time < Epoch + MaxWall
    /\ ~watch.pending
    /\ watch' = [watch EXCEPT !.pending = TRUE]
    /\ WatchFrame

\* one iteration of 'for _changes in watch(...)': the notification is
\* dropped inside the debounce window, and starts a pass outside it
Notified ==
    /\ watch.pc = "waiting"
    /\ watch.pending
    /\ IF Debounced(watch.time, watch.last_run_ts)
       THEN watch' = [watch EXCEPT !.pending = FALSE, !.unserved = TRUE]
       ELSE watch' = [watch EXCEPT !.pending = FALSE, !.unserved = FALSE,
                                   !.last_run_ts = watch.time,
                                   !.pc = "pass",
                                   !.starts = Append(@, watch.time),
                                   !.coalesced = watch.unserved]
    /\ WatchFrame

\* the command has ended; it can be started again
WatchEnd ==
    /\ watch.pc \in {"exited", "crashed"}
    /\ watch' = NoWatch
    /\ WatchFrame

NextWatch ==
    \/ \E once \in BOOLEAN : WatchStart(once)
    \/ \E raises \in BOOLEAN : PassDone(raises)
    \/ Tick
    \/ Change
    \/ Notified
    \/ WatchEnd

SpecWatch == Init /\ [][NextWatch]_vars

\* the loop and the clock go on; nothing obliges a file to change, nor the
\* command to be started or to end
SpecWatchLive ==
    /\ Init
    /\ [][NextWatch]_vars
    /\ WF_vars(Notified)
    /\ WF_vars(PassDone(FALSE))
    /\ WF_vars(Tick)

(***************************************************************************)
(* MemoryBankChunker._chunk_text_by_words, one iteration of its loop at a  *)
(* time, for any chunk_size >= 1 and chunk_overlap >= 0.                   *)
(* _chunk_text_by_tokens runs the same loop over tokens.                   *)
(***************************************************************************)
\* the texts of the calls: the i-th word of a text is i
WindowTexts == {[i \in 1..n |-> i] : n \in 0..MaxWords}

\* words[start:end] of Python: a negative index counts from the end of the
\* list, and an index beyond either end is clamped
SliceIndex(words, i) ==
    IF i < 0 THEN (IF Len(words) + i < 0 THEN 0 ELSE Len(words) + i)
    ELSE Min(i, Len(words))

Slice(words, start, end) ==
    SubSeq(words, SliceIndex(words, start) + 1, SliceIndex(words, end))

\* line 346: start = end - overlap if end < len(words) else end
NextStart(words, start, end, overlap) ==
    IF end < Len(words) THEN end - overlap ELSE end

WindowFrame ==
    UNCHANGED <<envVars, storeVars, cacheVars, passVars, embedVars, chunkVars,
                queryVars, verify_out, workers, cache_file, watch>>

\* lines 329-339: the call, its early returns and start = 0
ChunkTextByWords(words, max_chunk_size, overlap) ==
    /\ window.pc = "off"
    /\ window' =
         [NoWindow EXCEPT
            !.words = words, !.max_chunk_size = max_chunk_size,
            !.overlap = overlap,
            !.pc = IF words = <<>> \/ Len(words) <= max_chunk_size
                   THEN "returned" ELSE "loop",
            !.chunks = IF words = <<>> THEN <<>>
                       ELSE IF Len(words) <= max_chunk_size THEN <<words>>
                       ELSE <<>>]
    /\ WindowFrame

\* lines 340-346: one iteration of 'while start < len(words)'
WindowStep ==
    /\ window.pc = "loop"
    /\ window.start < Len(window.words)
    /\ Len(window.chunks) < MaxWindows
    /\ LET end == Min(window.start + window.max_chunk_size, Len(window.words))
       IN  window' =
             [window EXCEPT
                !.chunks = Append(@, Slice(window.words, window.start, end)),
                !.start = NextStart(window.words, window.start, end,
                                    window.overlap)]
    /\ WindowFrame

\* line 348: the loop is left, the list is returned
WindowReturn ==
    /\ window.pc = "loop"
    /\ window.start >= Len(window.words)
    /\ window' = [window EXCEPT !.pc = "returned"]
    /\ WindowFrame

\* the caller has the list
WindowDone ==
    /\ window.pc = "returned"
    /\ window' = NoWindow
    /\ WindowFrame

NextWindow ==
    \/ \E words \in WindowTexts, max_chunk_size \in 1..MaxSize,
          overlap \in 0..(MaxSize + 1) :
          ChunkTextByWords(words, max_chunk_size, overlap)
    \/ WindowStep
    \/ WindowReturn
    \/ WindowDone

SpecWindow == Init /\ [][NextWindow]_vars

\* a call that is in its loop goes on to the next iteration, and returns
\* when the loop is left
SpecWindowLive ==
    /\ Init
    /\ [][NextWindow]_vars
    /\ WF_vars(WindowStep)
    /\ WF_vars(WindowReturn)

(***************************************************************************)
(* Several threads call embed_chunks on one LocalEmbedder, each with one   *)
(* chunk.  The embedder has no lock: the threads share embedding_cache and *)
(* embedding_cache.pkl, and a thread can be overtaken between any two of   *)
(* its statements.  The pickle of the cache fits the buffer of the file    *)
(* object, so it reaches the file when the 'with' block closes it.         *)
(***************************************************************************)
\* the contents of the chunks of the threads
ThreadContents == {<<"a">>, <<"b">>}

\* a thread at the start of embed_chunks.  embeddings: the list it builds;
\* pickled: what pickle.dump has written to its file object
Worker(content) ==
    [pc |-> "check", content |-> content, embeddings |-> <<>>,
     pickled |-> EmptyMap]

ThreadFrame ==
    UNCHANGED <<envVars, storeVars, encode_count, passVars, embedVars,
                chunkVars, queryVars, verify_out, watch, window>>

\* the threads are started
StartThreads(contents) ==
    /\ workers = NoWorkers
    /\ workers' = [t \in 1..NumThreads |-> Worker(contents[t])]
    /\ UNCHANGED <<embedding_cache, cache_file>>
    /\ ThreadFrame

\* lines 114-126: the cache is looked up; a hit is returned at once
CheckCache(t) ==
    /\ workers # NoWorkers
    /\ workers[t].pc = "check"
    /\ LET content_hash == _get_content_hash(workers[t].content)
       IN  workers' =
             IF content_hash \in DOMAIN embedding_cache
             THEN [workers EXCEPT ![t].pc = "done",
                                  ![t].embeddings = <<embedding_cache[content_hash]>>]
             ELSE [workers EXCEPT ![t].pc = "encode"]
    /\ UNCHANGED <<embedding_cache, cache_file>>
    /\ ThreadFrame

\* lines 129-136: _batch_encode of the one text
BatchEncode(t) ==
    /\ workers # NoWorkers
    /\ workers[t].pc = "encode"
    /\ workers' = [workers EXCEPT
                     ![t].pc = "update",
                     ![t].embeddings = _batch_encode(<<workers[t].content>>)]
    /\ UNCHANGED <<embedding_cache, cache_file>>
    /\ ThreadFrame

\* lines 139-142: self.embedding_cache[content_hash] = embedding
UpdateCache(t) ==
    /\ workers # NoWorkers
    /\ workers[t].pc = "update"
    /\ LET content_hash == _get_content_hash(workers[t].content)
       IN  embedding_cache' =
             [h \in DOMAIN embedding_cache \cup {content_hash} |->
                IF h = content_hash THEN workers[t].embeddings[1]
                ELSE embedding_cache[h]]
    /\ workers' = [workers EXCEPT ![t].pc = "open"]
    /\ UNCHANGED cache_file
    /\ ThreadFrame

\* line 96: open(cache_file, 'wb') truncates the file
OpenCacheFile(t) ==
    /\ workers # NoWorkers
    /\ workers[t].pc = "open"
    /\ cache_file' = [state |-> "empty", cache |-> EmptyMap]
    /\ workers' = [workers EXCEPT ![t].pc = "dump"]
    /\ UNCHANGED embedding_cache
    /\ ThreadFrame

\* line 97: pickle.dump(self.embedding_cache, f) pickles the cache as it is
\* now
PickleDump(t) ==
    /\ workers # NoWorkers
    /\ workers[t].pc = "dump"
    /\ workers' = [workers EXCEPT ![t].pc = "close",
                                  ![t].pickled = embedding_cache]
    /\ UNCHANGED <<embedding_cache, cache_file>>
    /\ ThreadFrame

\* the end of the 'with' block: the pickle is written from the start of the
\* file, over whatever the file holds; embed_chunks returns
CloseCacheFile(t) ==
    /\ workers # NoWorkers
    /\ workers[t].pc = "close"
    /\ cache_file' = _save_cache(workers[t].pickled)
    /\ workers' = [workers EXCEPT ![t].pc = "done"]
    /\ UNCHANGED embedding_cache
    /\ ThreadFrame

\* thread.join() for every thread
JoinThreads ==
    /\ workers # NoWorkers
    /\ \A t \in 1..NumThreads : workers[t].pc = "done"
    /\ workers' = NoWorkers
    /\ UNCHANGED <<embedding_cache, cache_file>>
    /\ ThreadFrame

NextThreads ==
    \/ \E contents \in [1..NumThreads -> ThreadContents] : StartThreads(contents)
    \/ \E t \in 1..NumThreads :
          \/ CheckCache(t)
          \/ BatchEncode(t)
          \/ UpdateCache(t)
          \/ OpenCacheFile(t)
          \/ PickleDump(t)
          \/ CloseCacheFile(t)
    \/ JoinThreads

SpecThreads == Init /\ [][NextThreads]_vars

(***************************************************************************)
(* Properties                                                              *)
(***************************************************************************)
\* the records the vector index holds for a document path
RecordsOf(document_path) ==
    {r \in collection : r.chunk.document_path = document_path}

\* the paths of the pass whose chunks were inserted
IndexedPaths == {p \in DOMAIN processed : processed[p].outcome = "indexed"}

\* a pass has gone through _save_index_state and returned
PassPersisted ==
    /\ pc = "done"
    /\ result.kind = "returned"
    /\ \/ op = "full"
       \/ op = "incremental" /\ new_files \cup modified_files \cup deleted_files # {}

\* a step that starts incremental_index
StartsIncremental == pc = "idle" /\ op' = "incremental"

\* C1: idempotence. Once a pass has persisted IndexState, an incremental_index
\* run started with no filesystem change since the persisted scan detects no
\* new, modified or deleted file, returns 0 and neither deletes nor inserts a
\* chunk (nor rewrites IndexState), whatever happened to the files of the
\* earlier pass.
C1_Idempotent ==
    [][ (StartsIncremental /\ state_clock = now)
          => /\ new_files' = {} /\ modified_files' = {} /\ deleted_files' = {}
             /\ pc' = "done" /\ result' = Returned(0)
             /\ collection' = collection
             /\ index_state' = index_state ]_vars

\* C1 witness: such a run has returned 0 although the persisted scan holds a
\* file that has no chunk in the index (it was skipped or failed earlier)
C1_Witness ==
    /\ pc = "done" /\ op = "incremental" /\ result = Returned(0)
    /\ state_clock = now
    /\ \E p \in DOMAIN index_state : RecordsOf(p) = {}
    /\ \E p \in DOMAIN index_state : RecordsOf(p) # {}

\* C2: change classification. detect_changes returns as new exactly the
\* files of the tree that IndexState does not hold, as deleted exactly the
\* paths of IndexState that are no file of the tree, as modified exactly the
\* paths in both whose content hash differs; the three are pairwise
\* disjoint, and a path in both with an equal hash is in none of them,
\* whatever its mtime.
C2_ChangeClassification ==
    [][ (StartsIncremental /\ ~ScanRaises(fs))
          => /\ new_files' = {p \in Paths : fs[p].exists /\ p \notin DOMAIN index_state}
             /\ deleted_files' = {p \in DOMAIN index_state : ~fs[p].exists}
             /\ modified_files' =
                  {p \in DOMAIN index_state :
                      fs[p].exists /\ index_state[p].hash # _get_file_hash(fs[p].body)}
             /\ new_files' \cap modified_files' = {}
             /\ new_files' \cap deleted_files' = {}
             /\ modified_files' \cap deleted_files' = {}
             /\ \A p \in DOMAIN index_state :
                    (fs[p].exists /\ index_state[p].hash = _get_file_hash(fs[p].body))
                      => p \notin new_files' \cup modified_files' \cup deleted_files' ]_vars

\* C2 witness: detect_changes has classified one file as new while a file
\* whose mtime alone differs from the persisted one is in no class
C2_Witness ==
    /\ pc = "delete" /\ op = "incremental"
    /\ new_files # {}
    /\ \E p \in DOMAIN index_state :
          /\ fs[p].exists
          /\ fs[p].mtime # index_state[p].mtime
          /\ index_state[p].hash = _get_file_hash(fs[p].body)
          /\ p \notin new_files \cup modified_files \cup deleted_files

\* the chunks of the index for path p are exactly those of chunking the text
\* that the pass read from p
HoldsExactlyNewChunks(p) ==
    {r.chunk : r \in RecordsOf(p)} = Range(chunk_document(p, processed[p].text))

\* an incremental pass that found changes has returned
IncrementalReturned ==
    /\ pc = "done" /\ op = "incremental" /\ result.kind = "returned"
    /\ new_files \cup modified_files \cup deleted_files # {}

\* C3 as stated: after incremental_index the index holds no chunk of a
\* deleted path, holds for every modified path whose re-index succeeded
\* exactly the chunks of the file's new content, and a pass over exactly one
\* modified file returns 1.
C3_Original ==
    IncrementalReturned
      => /\ \A p \in deleted_files : RecordsOf(p) = {}
         /\ \A p \in modified_files \cap IndexedPaths : HoldsExactlyNewChunks(p)
         /\ (new_files = {} /\ deleted_files = {} /\ Cardinality(modified_files) = 1)
               => result.count = 1

\* C3 amended: the same, where the pass over exactly one modified file
\* returns 1 when that file's re-index succeeded (and 0 when the file was
\* skipped or failed).
C3_DeleteThenInsert ==
    IncrementalReturned
      => /\ \A p \in deleted_files : RecordsOf(p) = {}
         /\ \A p \in modified_files \cap IndexedPaths : HoldsExactlyNewChunks(p)
         /\ (new_files = {} /\ deleted_files = {} /\ Cardinality(modified_files) = 1)
               => result.count = Cardinality(modified_files \cap IndexedPaths)

\* C3 witness: a pass over one modified file has replaced the one chunk of
\* the old content by the two windows of the new content and returned 1
C3_Witness ==
    /\ IncrementalReturned
    /\ new_files = {} /\ deleted_files = {}
    /\ \E p \in modified_files :
          /\ modified_files = {p}
          /\ p \in IndexedPaths
          /\ Cardinality(RecordsOf(p)) = 2
    /\ result.count = 1

\* C4: at the end of every full_index pass and of every incremental_index
\* pass that detected a change, IndexState is the scan of that pass: one
\* entry (hash, mtime, size) for every file the scan found and none for any
\* other path, whatever happened to the files during the pass.
C4_StateIsScan ==
    PassPersisted
      => /\ index_state = current_state
         /\ state_clock = scan_clock
         /\ scan_clock = now
               => /\ DOMAIN index_state = {p \in Paths : fs[p].exists}
                  /\ \A p \in DOMAIN index_state :
                        index_state[p] = [ hash  |-> _get_file_hash(fs[p].body),
                                           mtime |-> fs[p].mtime,
                                           size  |-> st_size(fs[p].body) ]

\* C4 witness: a pass has persisted the entry of a file that it skipped or
\* failed to index, next to one that it indexed
C4_Witness ==
    /\ PassPersisted
    /\ scan_clock = now
    /\ \E p \in DOMAIN index_state :
          p \in DOMAIN processed /\ processed[p].outcome # "indexed"
    /\ IndexedPaths # {}

\* C5 as stated: a file that is missing, permission-denied, undecodable or
\* blank is skipped without aborting the pass: no pass ends by raising
\* because of a file; every other file of the pass is still processed and
\* the count returned is the number of files whose chunks were inserted.
C5_Original ==
    /\ (pc = "done" /\ result.kind = "raised") => result.cause # "PermissionError"
    /\ (pc = "done" /\ result.kind = "returned" /\ op # "none")
          => /\ files_to_index = {}
             /\ result.count = Cardinality(IndexedPaths)

\* the provider failures of a pass: the embedding provider or collection.add
\* raised for the file
ProviderFailed ==
    {p \in DOMAIN processed : processed[p].outcome \in {"embed_failed", "add_failed"}}

\* C6 as stated: if the embedding provider or the vector index raises
\* during a pass, the failure propagates to the caller: no pass in which one
\* of them raised returns normally.
C6_Original ==
    (pc = "done" /\ result.kind = "returned") => ProviderFailed = {}

\* C6 amended: a failure of the vector index while deleting a document's
\* chunks ends the pass at once with the exception (no later deletion,
\* insertion or IndexState write), so a pass that gets past its deletions
\* has removed every chunk of every deleted path; a failure of the embedding
\* provider or of the insertion of a file's chunks is caught: that file is
\* not counted, is not tried again in the pass, and the pass goes on to
\* return the number of files it did insert.
C6_DeleteFatalInsertCaught ==
    /\ (pc = "done" /\ result = Raised("provider"))
          => /\ del_left # {} /\ processed = EmptyMap
             /\ files_to_index = {} /\ current_state = EmptyMap
    /\ (pc = "index" /\ op = "incremental")
          => \A p \in deleted_files : RecordsOf(p) = {}
    /\ pc = "index" => DOMAIN processed \cap files_to_index = {}
    /\ (pc = "done" /\ result.kind = "returned" /\ op # "none")
          => /\ files_to_index = {}
             /\ ProviderFailed \cap IndexedPaths = {}
             /\ result.count = Cardinality(IndexedPaths)

\* C6 witness: a pass in which the embedding provider or the insertion
\* raised for one file has gone on, indexed another file and returned 1
C6_Witness ==
    /\ pc = "done" /\ result = Returned(1)
    /\ ProviderFailed # {}
    /\ IndexedPaths # {}

\* C7 as stated: with no clear_cache in between, the provider embeds each
\* distinct chunk content at most once, also when two chunks of one
\* embed_chunks call have the same content.
C7_Original ==
    \A t \in DOMAIN encode_count : encode_count[t] <= 1

\* a step in which a direct embed_chunks call returns its list
EmbedReturns == embed_out.kind = "none" /\ embed_out'.kind = "returned"

\* C8: embed_chunks returns one vector per input chunk, in input order: the
\* cached vector, with no provider call, for a chunk whose content hash was
\* cached, and the vector the provider computes for its own content for a
\* miss; afterwards the cache has an entry for every input content and has
\* grown by the number of distinct contents that were not cached.
C8_EmbedChunks ==
    [][ EmbedReturns =>
          LET Hash(i) == _get_content_hash(embed_in'[i].content)
              hashes == {Hash(i) : i \in 1..Len(embed_in')}
              Count(c, t) == IF t \in DOMAIN c THEN c[t] ELSE 0
          IN  /\ Len(embed_out'.embeddings) = Len(embed_in')
              /\ \A i \in 1..Len(embed_in') :
                    IF Hash(i) \in DOMAIN embedding_cache
                    THEN /\ embed_out'.embeddings[i] = embedding_cache[Hash(i)]
                         /\ Count(encode_count', embed_in'[i].content)
                              = Count(encode_count, embed_in'[i].content)
                    ELSE embed_out'.embeddings[i] = model_encode(embed_in'[i].content)
              /\ hashes \subseteq DOMAIN embedding_cache'
              /\ Cardinality(DOMAIN embedding_cache')
                   = Cardinality(DOMAIN embedding_cache)
                     + Cardinality(hashes \ DOMAIN embedding_cache) ]_vars

\* C8 witness: a call with cached and uncached chunks, the uncached ones
\* not all in front, has returned
C8_Witness ==
    /\ embed_out.kind = "returned"
    /\ embed_out.hits >= 1 /\ embed_out.hits < Len(embed_in)
    /\ embed_out.embeddings[1] # model_encode(embed_in[Len(embed_in)].content)
    /\ _get_content_hash(embed_in[1].content) \in DOMAIN embedding_cache
    /\ Len(embed_in) = 3
    /\ Cardinality({embed_in[i].content : i \in 1..Len(embed_in)}) = 3

\* the chunks of the section that starts at start_line, among chunk_list
SectionChunksAt(chunk_list, start_line) ==
    {c \in Range(chunk_list) :
        c.start_line = start_line /\ section_regex(c.section_header.text)}

\* the 0-based lines at which the sections of a document start
SectionStarts(content) ==
    {i - 1 : i \in {j \in 1..Len(content) : section_regex(content[j])}}

Ids(chunk_set) == {c.chunk_id : c \in chunk_set}

\* C9 as stated: re-chunking a document after an edit of section body text
\* that leaves every section's header line and start line unchanged yields
\* the same chunk ids for the chunks of those sections.
C9_Original ==
    cpc = "rechunked"
      => \A l \in SectionStarts(doc) :
            Ids(SectionChunksAt(chunks, l)) = Ids(SectionChunksAt(prev_chunks, l))

\* C9 amended: a chunk's id is a function of (document path, section label,
\* start line), the label being the header followed, for a section split
\* into windows, by its part index '(Part i/n)': after such an edit every
\* section that yields as many chunks as before keeps its chunk ids.
C9_StableIds ==
    /\ \A c \in Range(chunks) :
          c.chunk_id = ChunkId(c.document_path, c.section_header, c.start_line)
    /\ cpc = "rechunked"
         => \A l \in SectionStarts(doc) :
               Cardinality(SectionChunksAt(chunks, l))
                   = Cardinality(SectionChunksAt(prev_chunks, l))
                 => Ids(SectionChunksAt(chunks, l)) = Ids(SectionChunksAt(prev_chunks, l))

\* C9 witness: after an edit a section split into windows has the ids it
\* had, with other content
C9_Witness ==
    /\ cpc = "rechunked"
    /\ \E l \in SectionStarts(doc) :
          /\ Cardinality(SectionChunksAt(chunks, l)) = 2
          /\ Ids(SectionChunksAt(chunks, l)) = Ids(SectionChunksAt(prev_chunks, l))
          /\ \E c \in SectionChunksAt(chunks, l), d \in SectionChunksAt(prev_chunks, l) :
                c.chunk_id = d.chunk_id /\ c.content # d.content

\* C10 as stated: for a small-tier document the contents of the chunks of
\* chunk_document, concatenated in order, are the document's content up to
\* white space.
C10_Original ==
    (cpc = "chunked" /\ categorize_document(doc) = "green")
      => ConcatAll([i \in 1..Len(chunks) |-> chunks[i].content]) = Flatten(doc)

\* C11 as stated: every chunk that chunk_document emits, in every size tier,
\* holds at most chunk_size words.
C11_Original ==
    cpc \in {"chunked", "rechunked"}
      => \A c \in Range(chunks) : Len(c.content) <= chunk_size

\* no line of the document matches the header pattern
NoHeader(content) == \A i \in 1..Len(content) : ~section_regex(content[i])

\* C12 as stated: a document with no header line is windowed as a whole into
\* chunks labelled 'Content Part i', so a non-blank one yields at least one
\* chunk in every size tier, and the empty document yields none.
C12_Original ==
    (cpc \in {"chunked", "rechunked"} /\ NoHeader(doc))
      => /\ Flatten(doc) # <<>> => Len(chunks) >= 1
         /\ \A i \in 1..Len(chunks) : chunks[i].section_header = ContentPartLabel(i)
         /\ doc = << <<>> >> => chunks = <<>>

\* the tier of a line count, by the two thresholds
TierOf(line_count) ==
    IF line_count <= small_threshold THEN "green"
    ELSE IF line_count <= medium_threshold THEN "yellow"
    ELSE "red"

ResultIds(results) == {results[i].chunk.chunk_id : i \in 1..Len(results)}

\* the result of a list for a chunk id
ResultOf(results, chunk_id) ==
    results[CHOOSE i \in 1..Len(results) : results[i].chunk.chunk_id = chunk_id]

\* C14: fusion yields at most one result per chunk id: a chunk of the
\* semantic leg only, with score s, has fused score alpha*s and tag
\* 'semantic'; one of the lexical leg only, with score k, has (1-alpha)*k and
\* tag 'keyword'; one of both legs has alpha*s + (1-alpha)*k and tag 'hybrid'.
C14_Fusion ==
    search_out.kind = "returned"
      => LET semantic_results == search_out.semantic
             keyword_results == search_out.keyword
             combined == search_out.combined
         IN  /\ \A i \in 1..Len(combined), j \in 1..Len(combined) :
                   combined[i].chunk.chunk_id = combined[j].chunk.chunk_id => i = j
             /\ ResultIds(combined)
                  = ResultIds(semantic_results) \cup ResultIds(keyword_results)
             /\ \A i \in 1..Len(combined) :
                   LET id == combined[i].chunk.chunk_id
                       s == ResultOf(semantic_results, id).score
                       k == ResultOf(keyword_results, id).score
                   IN  IF id \in ResultIds(semantic_results)
                       THEN IF id \in ResultIds(keyword_results)
                            THEN /\ combined[i].score
                                      = Mul(s, hybrid_alpha) + Mul(k, 1000 - hybrid_alpha)
                                 /\ combined[i].relevance_type = "hybrid"
                            ELSE /\ combined[i].score = Mul(s, hybrid_alpha)
                                 /\ combined[i].relevance_type = "semantic"
                       ELSE /\ combined[i].score = Mul(k, 1000 - hybrid_alpha)
                            /\ combined[i].relevance_type = "keyword"

\* C14 witness: one search has fused a chunk of the semantic leg only, one of
\* the lexical leg only and one of both
C14_Witness ==
    /\ search_out.kind = "returned"
    /\ {search_out.combined[i].relevance_type : i \in 1..Len(search_out.combined)}
         = {"semantic", "keyword", "hybrid"}

\* C15: search returns at most top_k results, in non-increasing order of
\* enhanced score, each with an enhanced score of at least
\* relevance_threshold, and no candidate that passed the filters and the
\* threshold but was left out has an enhanced score greater than that of a
\* returned result.
C15_TopK ==
    search_out.kind = "returned"
      => LET results == search_out.results
             candidates == search_out.candidates
         IN  /\ Len(results) <= top_k
             /\ \A i \in 1..Len(results) : results[i] \in Range(candidates)
             /\ \A i \in 1..Len(results), j \in 1..Len(results) :
                   i < j => results[i].enhanced_score >= results[j].enhanced_score
             /\ \A i \in 1..Len(results) :
                   results[i].enhanced_score >= relevance_threshold
             /\ \A c \in Range(candidates) :
                   (c.enhanced_score >= relevance_threshold /\ c \notin Range(results))
                     => /\ Len(results) = top_k
                        /\ \A i \in 1..Len(results) :
                              c.enhanced_score <= results[i].enhanced_score

\* C15 witness: of four candidates in another order than that of their
\* scores, one was below the threshold, and of the three others the two
\* best were returned, the better one first
C15_Witness ==
    /\ search_out.kind = "returned"
    /\ Len(search_out.candidates) = 4
    /\ Len(search_out.results) = top_k
    /\ search_out.results[1].enhanced_score > search_out.results[top_k].enhanced_score
    /\ search_out.results # SubSeq(search_out.candidates, 1, top_k)
    /\ \E c \in Range(search_out.candidates) :
          c.enhanced_score < relevance_threshold
    /\ \E c \in Range(search_out.candidates) :
          /\ c.enhanced_score >= relevance_threshold
          /\ c \notin Range(search_out.results)

\* C16 as stated: when search is called with a configured domain, every
\* result's document path is one of the domain's files, whatever metadata
\* filters are passed with the domain.
C16_Original ==
    (search_out.kind = "returned" /\ DomainConfigured(search_in.domain))
      => \A i \in 1..Len(search_out.results) :
            search_out.results[i].chunk.document_path
              \in Range(domains[search_in.domain].files)

UrgencyQuery ==
    AnyTerm(_sanitize_query(search_in.query),
            {"urgent", "priority", "critical", "deadline"})

\* result a is in the list returned, before result b if b is in it as well
RankedBefore(a, b) ==
    \A j \in 1..Len(search_out.results) :
        search_out.results[j].chunk.chunk_id = b.chunk.chunk_id
          => \E i \in 1..(j - 1) :
                search_out.results[i].chunk.chunk_id = a.chunk.chunk_id

C19_Original ==
    (pc = "done" /\ \E p \in DOMAIN processed : processed[p].outcome = "not_initialised")
      => result.kind = "raised"

\* C20 as stated: search raises only for the uninitialised collection; any
\* other failure inside it gives an empty result list.
C20_Original ==
    /\ search_out.kind = "raised" => search_out.cause = "ValueError"
    /\ (search_out.kind # "none"
        /\ search_in.provider \in {"embed_raises", "query_raises", "get_raises"}
        /\ collection_init)
          => (search_out.kind = "returned" /\ search_out.results = <<>>)

\* the paths for which verify_index reported the issue
IssuePaths(out, issue) == {i.file_path : i \in {j \in out.issues : j.issue = issue}}

\* C21: verify_index changes neither the persisted IndexState nor the vector
\* index; it reports one issue for every IndexState path absent from a live
\* scan, marking the result invalid, and one issue for every scanned path
\* absent from IndexState.
C21_VerifyReports ==
    [][(verify_out.kind = "none" /\ verify_out'.kind = "returned")
         => /\ index_state' = index_state /\ state_clock' = state_clock
            /\ collection' = collection /\ collection_init' = collection_init
            /\ IssuePaths(verify_out', "Indexed file no longer exists")
                 = DOMAIN index_state \ {p \in Paths : fs[p].exists}
            /\ DOMAIN index_state \ {p \in Paths : fs[p].exists} # {}
                 => ~verify_out'.valid
            /\ IssuePaths(verify_out', "File not indexed")
                 = {p \in Paths : fs[p].exists} \ DOMAIN index_state
            /\ \A i \in verify_out'.issues, j \in verify_out'.issues :
                  i.file_path = j.file_path => i = j]_vars

\* C21 witness: verify_index has found a persisted path whose file is gone
\* and a file that IndexState does not hold, with a non-empty vector index
C21_Witness ==
    /\ verify_out.kind = "returned" /\ ~verify_out.valid
    /\ IssuePaths(verify_out, "Indexed file no longer exists") # {}
    /\ IssuePaths(verify_out, "File not indexed") # {}
    /\ collection # {}

\* C22: in the watch loop a burst of notifications arriving within the
\* debounce window is coalesced into a single incremental pass: no two
\* passes of the loop are started less than debounce seconds apart.
C22_Debounce ==
    \A i \in 1..Len(watch.starts), j \in 1..Len(watch.starts) :
        i < j => watch.starts[j] - watch.starts[i] >= debounce

\* C22 witness: the loop has started two passes, and in between it dropped
\* a notification that came inside the debounce window
C22_Witness ==
    /\ Len(watch.starts) = 2
    /\ watch.pc = "pass"
    /\ watch.coalesced

\* C30 as stated: no change is lost to debouncing: every notification the
\* loop is handed, also inside the debounce window of the previous pass, is
\* eventually followed by an incremental pass, even if no further change
\* ever occurs.
C30_Original == watch.unserved ~> ~watch.unserved

\* a step of the indexer from one position to the next
PhaseStep(from, to) == pc = from /\ pc' = to

\* C24 as stated: every pass goes scan, diff, per-file re-index, persist,
\* idle, and IndexState is written exactly once per pass, after the last
\* file was processed and never before or between the deletions and
\* insertions.
C24_Original ==
    [][ /\ (pc' = "done" /\ op' # "none") => state_writes' = 1
        /\ state_writes' # state_writes
             => \/ state_writes' = 0
                \/ pc = "index" /\ files_to_index = {} /\ del_left = {} ]_vars

\* C24 amended: a pass goes from idle to its deletions (incremental) or
\* straight to its per-file loop (full), from the deletions to the loop, from
\* the loop to its end and back to idle, and may end early (no change
\* detected, or a scan or a deletion raised). IndexState is written at most
\* once per pass: exactly once by every full pass and every incremental pass
\* that detected a change and did not raise, not at all by any other pass;
\* and it is written only by the step that ends the loop, when no deletion
\* and no file of the pass is left.
C24_PhaseOrder ==
    [][ /\ pc' # pc
             => \/ PhaseStep("idle", "delete") /\ op' = "incremental"
                \/ PhaseStep("idle", "index") /\ op' = "full"
                \/ PhaseStep("idle", "done")
                \/ PhaseStep("delete", "index") /\ del_left = {}
                \/ PhaseStep("delete", "done") /\ result'.kind = "raised"
                \/ PhaseStep("index", "done") /\ files_to_index = {}
                \/ PhaseStep("done", "idle")
        /\ (pc' = "done" /\ op' # "none")
             => state_writes' = IF PassPersisted' THEN 1 ELSE 0
        /\ (index_state' # index_state \/ state_writes' = state_writes + 1)
             => /\ PhaseStep("index", "done")
                /\ files_to_index = {} /\ del_left = {}
                /\ state_writes = 0 /\ state_writes' = 1
                /\ collection' = collection ]_vars

\* C24 witness: an incremental pass that deleted the chunks of one file and
\* inserted those of another has written IndexState once
C24_Witness ==
    /\ pc = "done" /\ op = "incremental" /\ result.kind = "returned"
    /\ deleted_files # {} /\ IndexedPaths # {}
    /\ state_writes = 1
    /\ index_state = current_state

\* C28: at every point of an incremental pass the index holds, for a
\* modified file, either chunks of its old version only, or nothing, or
\* exactly the chunks of the text the pass read from it, never both
\* versions: no chunk is inserted while a deletion is still to come, and
\* once the deletions are over a modified file has no chunk until its own
\* are inserted.
C28_NoMixedVersions ==
    op = "incremental"
      => /\ pc = "delete" => processed = EmptyMap /\ files_to_index = {}
         /\ del_left # {} => IndexedPaths = {}
         /\ (pc = "index" \/ (pc = "done" /\ result.kind = "returned"))
               => \A p \in modified_files :
                     IF p \in IndexedPaths
                     THEN HoldsExactlyNewChunks(p)
                     ELSE RecordsOf(p) = {}

\* C28 witness: in the middle of a pass, before IndexState is written, a
\* modified file holds exactly the chunks of its new text, next to a new
\* file that was indexed before it
C28_Witness ==
    /\ op = "incremental" /\ pc = "index" /\ collection_init
    /\ \E p \in modified_files :
          /\ p \in IndexedPaths
          /\ RecordsOf(p) # {}
          /\ HoldsExactlyNewChunks(p)
          /\ index_state[p].hash # _get_file_hash([utf8 |-> TRUE, text |-> processed[p].text])
          /\ index_state[p].hash # _get_file_hash([utf8 |-> FALSE, text |-> processed[p].text])
    /\ new_files \cap IndexedPaths # {}

\* the chunks of the index for path p are exactly those of chunking the
\* file's content on disk
HoldsChunksOfFile(p) ==
    {r.chunk : r \in RecordsOf(p)} = Range(chunk_document(p, fs[p].body.text))

\* C27 as stated: after full_index every chunk of the index belongs to a
\* file of the scan just persisted and was produced from that file's current
\* content; no chunk of a removed file or of an earlier content remains.
C27_Original ==
    (pc = "done" /\ op = "full" /\ result.kind = "returned")
      => \A r \in collection :
            /\ r.chunk.document_path \in DOMAIN index_state
            /\ (scan_clock = now /\ r.chunk.document_path \in IndexedPaths)
                  => HoldsChunksOfFile(r.chunk.document_path)

\* the per-file loop of the pass has inserted the chunks of every file it
\* went through
NoFileFailed == \A p \in DOMAIN processed : processed[p].outcome = "indexed"

\* C26 as stated: whenever incremental_index returns without a per-file
\* failure, every path whose entry the pass has written to IndexState and
\* whose persisted hash is the hash of the file's content has in the index
\* exactly the chunks of that content, also when files change between the
\* two scans.
C26_Original ==
    [][ ( /\ pc = "index" /\ pc' = "done" /\ op = "incremental"
          /\ NoFileFailed )
          => \A p \in DOMAIN index_state' :
                ( /\ p \notin DOMAIN index_state \/ index_state[p] # index_state'[p]
                  /\ fs[p].exists
                  /\ index_state'[p].hash = _get_file_hash(fs[p].body) )
                  => HoldsChunksOfFile(p) ]_vars

\* the files for which the embedding provider or the insertion raised, or
\* add_chunks found no collection
FailedToIndex ==
    {p \in DOMAIN processed :
        processed[p].outcome \in {"embed_failed", "add_failed", "not_initialised"}}

\* a pass started now would take path p up again
WouldRetry(p) ==
    LET current == _scan_memory_bank(fs)
    IN  p \in detect_new(current, index_state) \cup detect_modified(current, index_state)

\* C25 as stated: when a new or modified file failed to index in an
\* incremental pass, at the end of the pass the file has no chunk in the
\* index (the deletions are not rolled back), its new hash is persisted, and
\* as long as its content is the one persisted no incremental pass takes it
\* up again.
C25_Original ==
    IncrementalReturned
      => \A p \in FailedToIndex :
            /\ RecordsOf(p) = {}
            /\ p \in DOMAIN index_state /\ index_state[p] = current_state[p]
            /\ (fs[p].exists /\ _get_file_hash(fs[p].body) = index_state[p].hash)
                  => ~WouldRetry(p)

\* what holds of a failed file: a modified file that failed has no chunk in
\* the index, the new hash of a new or modified file that failed is
\* persisted, and no pass takes the file up while its content is the one
\* persisted.
C25_FailedNotRetried ==
    IncrementalReturned
      => \A p \in FailedToIndex :
            /\ p \in modified_files => RecordsOf(p) = {}
            /\ p \in DOMAIN index_state /\ index_state[p] = current_state[p]
            /\ (fs[p].exists /\ _get_file_hash(fs[p].body) = index_state[p].hash)
                  => ~WouldRetry(p)

\* the case has happened: the insertion of a modified file's chunks has
\* failed after its old chunks were deleted, the pass has persisted the new
\* hash, the file is unchanged since and no pass would take it up
FailedModifiedFileLeftOut ==
    /\ IncrementalReturned /\ collection_init
    /\ \E p \in modified_files \cap FailedToIndex :
          /\ RecordsOf(p) = {}
          /\ fs[p].exists /\ _get_file_hash(fs[p].body) = index_state[p].hash
          /\ ~WouldRetry(p)

\* C29 as stated: window splitting terminates with finitely many windows for
\* every text, every chunk_size >= 1 and every chunk_overlap >= 0, also for
\* chunk_overlap >= chunk_size: the window start strictly advances on every
\* iteration, and every call that enters the loop returns.
C29_Original ==
    /\ [][ (window.pc = "loop" /\ window'.pc = "loop")
              => window'.start > window.start ]_vars
    /\ (window.pc = "loop" ~> window.pc = "returned")

\* every thread of the run has returned from embed_chunks
ThreadsReturned ==
    workers # NoWorkers /\ \A t \in 1..NumThreads : workers[t].pc = "done"

\* C23 as stated: when several threads call embed_chunks on one embedder,
\* every call returns the vector of its chunk, and afterwards the in-memory
\* cache and the persisted cache file hold, for every content embedded, the
\* entry with its vector.
C23_Original ==
    ThreadsReturned
      => \A t \in 1..NumThreads :
            LET content_hash == _get_content_hash(workers[t].content)
                embedding == model_encode(workers[t].content)
            IN  /\ workers[t].embeddings = <<embedding>>
                /\ content_hash \in DOMAIN embedding_cache
                /\ embedding_cache[content_hash] = embedding
                /\ cache_file.state = "written"
                /\ content_hash \in DOMAIN cache_file.cache
                /\ cache_file.cache[content_hash] = embedding
====
